---- MODULE Spec2Model ----
(***************************************************************************)
(* Signal -> Score -> Gap -> Budget pipeline of the SBR application.       *)
(*                                                                         *)
(* Number representation (Python floats are modelled as fixed point):      *)
(*   percentage signals  : hundredths of a percent  (100.0  -> 10000)      *)
(*   incident_volume     : hundredths of a ticket per month                *)
(*   NIST scores         : thousandths              (1.0    -> 1000)       *)
(*   money               : thousandths of a dollar  (3.00   -> 3000)       *)
(*   thresholds          : whole percents, as Config reads them with int() *)
(***************************************************************************)
EXTENDS Integers, Sequences, FiniteSets, TLC

VARIABLES customer, assets, tickets, users,      \* records fetched from Halo
          thresholds, unit_costs,                \* engine configuration
          signals, nist_scores, gaps, recommendations, budget,
          roi_engine, annual_investment, critical_incidents,
          roi, industry_metrics, tiered_budget,  \* ROIEngine and its results
          agreements, meetings, reports, segment,\* segmentation inputs, record
          client_segmentation,  \* the rows of that table for the customer
          requests,     \* the lifecycle requests in progress
          tie_dir,      \* how the Overall sum of this input fell at a tie
          run,          \* the number of the request for this customer: 1 or 2
          error,        \* exception raised by the last call, or None
          pc

raw == <<customer, assets, tickets, users>>
config == <<thresholds, unit_costs>>
roi_vars == <<roi_engine, annual_investment, critical_incidents, roi,
              industry_metrics, tiered_budget>>
seg_vars == <<agreements, meetings, reports, segment, client_segmentation,
              requests>>

vars == <<raw, config, signals, nist_scores, gaps, recommendations, budget,
          roi_vars, seg_vars, tie_dir, run, error, pc>>

\* ------------------------------------------------------------------ bounds
MaxAssets == 3
MaxTickets == 1
MaxUsers == 1
MaxCount == 2
MaxGaps == 3

\* ----------------------------------------------------------------- helpers
None == "None"

\* dict.get(key, default)
Get(d, key, default) == IF key \in DOMAIN d THEN d[key] ELSE default

\* d.get(key) is True
IsTrue(d, key) == key \in DOMAIN d /\ d[key] = TRUE

\* Python round(): the nearest multiple, a tie going to the even one.
\* num / den rounded to an integer (num >= 0, den > 0).
RoundHalfEven(num, den) ==
    LET q == num \div den
        r == num % den
    IN  IF 2 * r < den THEN q
        ELSE IF 2 * r > den THEN q + 1
        ELSE IF q % 2 = 0 THEN q ELSE q + 1

\* round(part / whole * 100, 2), in hundredths of a percent
Percentage(part, whole) == RoundHalfEven(part * 10000, whole)

\* ---------------------------------------------------------- SignalProcessor
IsCompliant(a) == Get(a, "patchstatus", None) \in {"Compliant", "UpToDate"}
IsServer(a) == Get(a, "type", None) = "Server"
IsBackedUp(a) == IsTrue(a, "backup_enabled")
IsEdrEndpoint(a) == Get(a, "type", None) \in {"Workstation", "Laptop", "Server"}
IsProtected(a) == Get(a, "antivirusstatus", None) \in {"Protected", "Enabled"}
IsEndpoint(a) == Get(a, "type", None) \in {"Workstation", "Laptop"}
MetSla(t) == IsTrue(t, "met_sla")
IsActive(u) == Get(u, "active", TRUE)

PatchCompliance(as) ==
    IF Len(as) > 0 THEN Percentage(Len(SelectSeq(as, IsCompliant)), Len(as)) ELSE 0

BackupStatus(as) ==
    IF Len(as) > 0
    THEN LET servers == SelectSeq(as, IsServer)
         IN  IF Len(servers) > 0
             THEN Percentage(Len(SelectSeq(servers, IsBackedUp)), Len(servers))
             ELSE 10000
    ELSE 0

Mfa(c) == IF Get(c, "mfa_enforced", FALSE) THEN 10000 ELSE 0

\* mutant: protected assets counted over the whole list, not the endpoints
EdrCountsAllAssets(as) ==
    IF Len(as) > 0
    THEN LET endpoints == SelectSeq(as, IsEdrEndpoint)
         IN  IF Len(endpoints) > 0
             THEN Percentage(Len(SelectSeq(as, IsProtected)), Len(endpoints))
             ELSE 0
    ELSE 0

Edr(as) ==
    IF Len(as) > 0
    THEN LET endpoints == SelectSeq(as, IsEdrEndpoint)
         IN  IF Len(endpoints) > 0
             THEN Percentage(Len(SelectSeq(endpoints, IsProtected)), Len(endpoints))
             ELSE 0
    ELSE 0

\* mutant: an empty ticket list scored like a list of missed tickets
ResponseTimeSlaNoTickets(ts) ==
    IF Len(ts) > 0 THEN Percentage(Len(SelectSeq(ts, MetSla)), Len(ts)) ELSE 0

ResponseTimeSla(ts) ==
    IF Len(ts) > 0 THEN Percentage(Len(SelectSeq(ts, MetSla)), Len(ts)) ELSE 10000

IncidentVolume(ts) ==
    IF Len(ts) > 0 THEN RoundHalfEven(Len(ts) * 100, 3) ELSE 0

derive_signals(c, as, ts, us) ==
    [patch_compliance  |-> PatchCompliance(as),
     backup_status     |-> BackupStatus(as),
     mfa               |-> Mfa(c),
     edr               |-> Edr(as),
     response_time_sla |-> ResponseTimeSla(ts),
     incident_volume   |-> IncidentVolume(ts),
     total_assets      |-> Len(as),
     total_users       |-> Len(SelectSeq(us, IsActive)),
     total_servers     |-> Len(SelectSeq(as, IsServer)),
     total_endpoints   |-> Len(SelectSeq(as, IsEndpoint))]

\* ------------------------------------------------------------ ScoringEngine
\* Overall weights, in hundredths (0.15, 0.30, 0.20, 0.20, 0.15)
WeightIdentify == 15
WeightProtect == 30
WeightDetect == 20
WeightRespond == 20
WeightRecover == 15

\* bar of the MFA check, in percent
MfaBar == 100

\* round(signal / 100, 3): hundredths of a percent to thousandths
Ratio3(p) == RoundHalfEven(p, 10)

Identify(s) == IF Get(s, "total_assets", 0) > 0 THEN 1000 ELSE 0

\* mutant: the sum of the four controls divided by three
ProtectOverThree(s) ==
    RoundHalfEven(Get(s, "patch_compliance", 0) + Get(s, "mfa", 0)
                  + Get(s, "edr", 0) + Get(s, "backup_status", 0), 3 * 10)

\* round(sum(protect_signals) / len(protect_signals), 3)
Protect(s) ==
    RoundHalfEven(Get(s, "patch_compliance", 0) + Get(s, "mfa", 0)
                  + Get(s, "edr", 0) + Get(s, "backup_status", 0), 4 * 10)

Detect(s) == Ratio3(Get(s, "edr", 0))
Respond(s) == Ratio3(Get(s, "response_time_sla", 0))
Recover(s) == Ratio3(Get(s, "backup_status", 0))

\* The weighted sum of the rounded category scores, in 1/100000
WeightedSum(sc) ==
    sc.Identify * WeightIdentify + sc.Protect * WeightProtect
    + sc.Detect * WeightDetect + sc.Respond * WeightRespond
    + sc.Recover * WeightRecover

\* round(overall, 3). The weighted sum is a sum of double products and is not
\* exact: where the decimal sum lies half way between two thousandths the
\* double lies a little under or a little over it, and round() returns the
\* thousandth on that side (scores 1, 0.375, 0.5, 1, 0.5 sum to 0.6375 and
\* give 0.637; scores 0, 0, 0, 0.5, 0.25 sum to 0.1375 and give 0.138): both
\* neighbours are outcomes of a tie.
Overall(sc) ==
    IF WeightedSum(sc) % 100 = 50
    THEN {WeightedSum(sc) \div 100, WeightedSum(sc) \div 100 + 1}
    ELSE {RoundHalfEven(WeightedSum(sc), 100)}

\* the score vectors calculate_nist_scores can return (one, or two at a tie)
calculate_nist_scores(s) ==
    LET sc == [Identify |-> Identify(s), Protect |-> Protect(s),
               Detect |-> Detect(s), Respond |-> Respond(s),
               Recover |-> Recover(s)]
    IN  {[Identify |-> sc.Identify, Protect |-> sc.Protect, Detect |-> sc.Detect,
          Respond |-> sc.Respond, Recover |-> sc.Recover, Overall |-> o] :
            o \in Overall(sc)}

\* signal < threshold, the signal in hundredths and the threshold in percent
Below(s, signal, bar) == Get(s, signal, 0) < bar * 100

Gap(s, category, signal, bar, severity, issue, impact) ==
    [category |-> category, signal |-> signal,
     current_value |-> Get(s, signal, 0), threshold |-> bar,
     severity |-> severity, issue |-> issue, impact |-> impact]

\* mutant: the patch check reads the EDR threshold
PatchGapEdrThreshold(th, s) ==
    IF Below(s, "patch_compliance", th.THRESHOLD_EDR_COVERAGE)
    THEN <<Gap(s, "Protect", "patch_compliance", th.THRESHOLD_EDR_COVERAGE,
               "High", "Patch compliance below best practice threshold",
               "Increased vulnerability to known exploits and security breaches")>>
    ELSE <<>>

PatchGap(th, s) ==
    IF Below(s, "patch_compliance", th.THRESHOLD_PATCH_COMPLIANCE)
    THEN <<Gap(s, "Protect", "patch_compliance", th.THRESHOLD_PATCH_COMPLIANCE,
               "High", "Patch compliance below best practice threshold",
               "Increased vulnerability to known exploits and security breaches")>>
    ELSE <<>>

BackupGap(th, s) ==
    IF Below(s, "backup_status", th.THRESHOLD_BACKUP_SUCCESS)
    THEN <<Gap(s, "Recover", "backup_status", th.THRESHOLD_BACKUP_SUCCESS,
               "Critical", "Backup coverage below best practice threshold",
               "Risk of data loss and extended downtime in disaster scenarios")>>
    ELSE <<>>

EdrGap(th, s) ==
    IF Below(s, "edr", th.THRESHOLD_EDR_COVERAGE)
    THEN <<Gap(s, "Protect/Detect", "edr", th.THRESHOLD_EDR_COVERAGE,
               "High", "EDR/Antivirus coverage below best practice threshold",
               "Limited threat detection and response capabilities")>>
    ELSE <<>>

SlaGap(th, s) ==
    IF Below(s, "response_time_sla", th.THRESHOLD_SLA_ATTAINMENT)
    THEN <<Gap(s, "Respond", "response_time_sla", th.THRESHOLD_SLA_ATTAINMENT,
               "Medium", "SLA attainment below target",
               "Delayed incident response affecting business operations")>>
    ELSE <<>>

\* mutant: the MFA check fires at the bar too (<= for <)
MfaGapAtBar(s) ==
    IF Get(s, "mfa", 0) <= MfaBar * 100
    THEN <<Gap(s, "Protect", "mfa", MfaBar,
               "Critical", "Multi-Factor Authentication not enforced",
               "High risk of account compromise and unauthorized access")>>
    ELSE <<>>

MfaGap(s) ==
    IF Below(s, "mfa", MfaBar)
    THEN <<Gap(s, "Protect", "mfa", MfaBar,
               "Critical", "Multi-Factor Authentication not enforced",
               "High risk of account compromise and unauthorized access")>>
    ELSE <<>>

\* mutant: the MFA check evaluated before the SLA check
identify_gaps_mfa_first(th, s) ==
    PatchGap(th, s) \o BackupGap(th, s) \o EdrGap(th, s) \o MfaGap(s) \o SlaGap(th, s)

identify_gaps(th, s) ==
    PatchGap(th, s) \o BackupGap(th, s) \o EdrGap(th, s) \o SlaGap(th, s) \o MfaGap(s)

\* ------------------------------------------------------------- BudgetEngine
\* round(x, 2) of an amount in thousandths of a dollar (the result too)
Round2(x) == RoundHalfEven(x, 10) * 10

HasGap(gs, signal) == \E i \in DOMAIN gs : gs[i].signal = signal

\* (count, coverage) where the double product count * (1 - coverage / 100)
\* falls just short of the whole number it stands for, so that int() returns
\* one less: 5 * (1 - 0.8) = 0.9999999999999998. The only such pair with
\* count <= 8 and a coverage of two decimals.
FloatShort == {<<5, 8000>>}

\* int(count * (1 - coverage / 100))
Uncovered(count, coverage) ==
    LET exact == (count * (10000 - coverage)) \div 10000
    IN  IF <<count, coverage>> \in FloatShort THEN exact - 1 ELSE exact

LineItem(service, unit, quantity, unit_cost) ==
    [service |-> service, unit |-> unit, quantity |-> quantity,
     unit_cost |-> unit_cost,
     monthly_cost |-> Round2(quantity * unit_cost),
     annual_cost |-> Round2(quantity * unit_cost * 12)]

MfaItem(uc, s, gs) ==
    LET user_count == Get(s, "total_users", 0)
    IN  IF HasGap(gs, "mfa") /\ user_count > 0
        THEN <<LineItem("Multi-Factor Authentication", "per user", user_count,
                        uc.COST_MFA_PER_USER)>>
        ELSE <<>>

\* mutant: the uncovered == 0 case is not skipped
EdrItemNoSkip(uc, s, gs) ==
    LET endpoint_count == Get(s, "total_endpoints", 0)
        uncovered_endpoints == Uncovered(endpoint_count, Get(s, "edr", 0))
    IN  IF HasGap(gs, "edr") /\ endpoint_count > 0
        THEN <<LineItem("Endpoint Detection & Response", "per endpoint",
                        uncovered_endpoints, uc.COST_EDR_PER_ENDPOINT)>>
        ELSE <<>>

EdrItem(uc, s, gs) ==
    LET endpoint_count == Get(s, "total_endpoints", 0)
        uncovered_endpoints == Uncovered(endpoint_count, Get(s, "edr", 0))
    IN  IF HasGap(gs, "edr") /\ endpoint_count > 0 /\ uncovered_endpoints > 0
        THEN <<LineItem("Endpoint Detection & Response", "per endpoint",
                        uncovered_endpoints, uc.COST_EDR_PER_ENDPOINT)>>
        ELSE <<>>

BackupItem(uc, s, gs) ==
    LET server_count == Get(s, "total_servers", 0)
        uncovered_servers == Uncovered(server_count, Get(s, "backup_status", 0))
    IN  IF HasGap(gs, "backup_status") /\ server_count > 0 /\ uncovered_servers > 0
        THEN <<LineItem("Server Backup Solution", "per server",
                        uncovered_servers, uc.COST_BACKUP_PER_SERVER)>>
        ELSE <<>>

\* mutant: only Critical gaps counted
CriticalGapsOnly(gs) == Len(SelectSeq(gs, LAMBDA g : g.severity \in {"Critical"}))

HighSeverityGaps(gs) == Len(SelectSeq(gs, LAMBDA g : g.severity \in {"High", "Critical"}))

SiemThreshold == 3

SiemItem(uc, s, gs) ==
    LET user_count == Get(s, "total_users", 0)
    IN  IF HighSeverityGaps(gs) >= SiemThreshold /\ user_count > 0
        THEN <<[service |-> "SIEM / Security Monitoring", unit |-> "per user",
                quantity |-> user_count, unit_cost |-> uc.COST_SIEM_PER_USER,
                monthly_cost |-> Round2(user_count * uc.COST_SIEM_PER_USER),
                annual_cost |-> Round2(user_count * uc.COST_SIEM_PER_USER * 12),
                note |-> "Recommended due to multiple security gaps"]>>
        ELSE <<>>

\* budget['total_monthly'] += ..._monthly: the unrounded monthly amounts
RECURSIVE SumUnrounded(_)
SumUnrounded(items) ==
    IF items = <<>> THEN 0
    ELSE items[1].quantity * items[1].unit_cost + SumUnrounded(Tail(items))

calculate_budget(uc, s, gs) ==
    LET services == MfaItem(uc, s, gs) \o EdrItem(uc, s, gs)
                    \o BackupItem(uc, s, gs) \o SiemItem(uc, s, gs)
        total_monthly == Round2(SumUnrounded(services))
    IN  [services |-> services,
         total_monthly |-> total_monthly,
         total_annual |-> Round2(total_monthly * 12)]

\* self.thresholds[key] of a key the configuration lacks raises KeyError; the
\* four threshold checks each read their key whatever the signals are
identify_gaps_raises(th, s) ==
    \/ "THRESHOLD_PATCH_COMPLIANCE" \notin DOMAIN th
    \/ "THRESHOLD_BACKUP_SUCCESS" \notin DOMAIN th
    \/ "THRESHOLD_EDR_COVERAGE" \notin DOMAIN th
    \/ "THRESHOLD_SLA_ATTAINMENT" \notin DOMAIN th

\* self.unit_costs[key] is read only inside the branch that prices the item
calculate_budget_raises(uc, s, gs) ==
    \/ /\ HasGap(gs, "mfa") /\ Get(s, "total_users", 0) > 0
       /\ "COST_MFA_PER_USER" \notin DOMAIN uc
    \/ /\ HasGap(gs, "edr") /\ Get(s, "total_endpoints", 0) > 0
       /\ Uncovered(Get(s, "total_endpoints", 0), Get(s, "edr", 0)) > 0
       /\ "COST_EDR_PER_ENDPOINT" \notin DOMAIN uc
    \/ /\ HasGap(gs, "backup_status") /\ Get(s, "total_servers", 0) > 0
       /\ Uncovered(Get(s, "total_servers", 0), Get(s, "backup_status", 0)) > 0
       /\ "COST_BACKUP_PER_SERVER" \notin DOMAIN uc
    \/ /\ HighSeverityGaps(gs) >= SiemThreshold /\ Get(s, "total_users", 0) > 0
       /\ "COST_SIEM_PER_USER" \notin DOMAIN uc

\* ------------------------------------- ScoringEngine.generate_recommendations
\* the recommendation text and the action items per signal
RecommendationText ==
    [patch_compliance |->
        <<"Implement automated patch management solution and establish monthly patching cadence",
          <<"Deploy patch management tool across all endpoints",
            "Create maintenance windows for critical systems",
            "Establish patch testing and rollback procedures">> >>,
     backup_status |->
        <<"Deploy enterprise backup solution for all servers with daily backup schedules",
          <<"Implement backup solution for uncovered servers",
            "Configure daily incremental and weekly full backups",
            "Establish quarterly restore testing procedures">> >>,
     edr |->
        <<"Deploy EDR solution to all endpoints for comprehensive threat detection",
          <<"License and deploy EDR agent to all workstations and servers",
            "Configure threat detection policies and alerting",
            "Establish SOC monitoring and response procedures">> >>,
     response_time_sla |->
        <<"Optimize incident response processes and resource allocation",
          <<"Review and adjust ticket prioritization rules",
            "Implement automated triage and routing",
            "Increase staffing during peak incident periods">> >>,
     mfa |->
        <<"Enable and enforce MFA for all user accounts, especially privileged access",
          <<"Deploy MFA solution (Azure AD, Duo, etc.)",
            "Enforce MFA for all administrative accounts immediately",
            "Roll out MFA to all users with 30-day adoption plan">> >>]

Recommendation(gap) ==
    LET rec == [category |-> gap.category, priority |-> gap.severity,
                issue |-> gap.issue]
    IN  IF gap.signal \in DOMAIN RecommendationText
        THEN rec @@ [recommendation |-> RecommendationText[gap.signal][1],
                     action_items |-> RecommendationText[gap.signal][2]]
        ELSE rec

\* the recommendations in the reverse of the gaps' order
generate_recommendations_reversed(gs, s) ==
    [i \in DOMAIN gs |-> Recommendation(gs[Len(gs) + 1 - i])]

generate_recommendations(gs, s) == [i \in DOMAIN gs |-> Recommendation(gs[i])]

\* ---------------------------------------------------------------- ROIEngine
\* The dollar amounts, hours and percentages of ROIEngine are exact fractions
\* [n, d] in lowest terms with d > 0.
RECURSIVE GCD(_, _)
GCD(a, b) == IF b = 0 THEN a ELSE GCD(b, a % b)

Abs(x) == IF x < 0 THEN -x ELSE x

Q(n, d) ==
    LET g == GCD(Abs(n), Abs(d))
        sign == IF d < 0 THEN -1 ELSE 1
    IN  [n |-> sign * (n \div g), d |-> sign * (d \div g)]

QInt(i) == [n |-> i, d |-> 1]
QAdd(a, b) == Q(a.n * b.d + b.n * a.d, a.d * b.d)
QSub(a, b) == Q(a.n * b.d - b.n * a.d, a.d * b.d)
QMul(a, b) == Q(a.n * b.n, a.d * b.d)
QDiv(a, b) == Q(a.n * b.d, a.d * b.n)
QLess(a, b) == a.n * b.d < b.n * a.d
QLeq(a, b) == a.n * b.d <= b.n * a.d

\* an amount held in thousandths of a dollar, as a fraction of a dollar
Dollars(thousandths) == Q(thousandths, 1000)

INDUSTRY_PARAMS ==
    [government |->
        [name |-> "Local Government & Schools",
         downtime_cost_per_hour |-> 12000,
         compliance_frameworks |-> <<"FERPA", "HIPAA", "CJIS">>,
         key_metrics |-> <<"uptime", "compliance_score", "cost_per_user">>,
         breach_cost_multiplier |-> Q(25, 10)],
     nonprofit |->
        [name |-> "Nonprofits (Health & Public Service)",
         downtime_cost_per_hour |-> 5000,
         compliance_frameworks |-> <<"HIPAA", "PCI-DSS">>,
         key_metrics |-> <<"staff_hours_saved", "ticket_backlog", "cost_per_ticket">>,
         breach_cost_multiplier |-> Q(34, 10)],
     manufacturing |->
        [name |-> "Manufacturing",
         downtime_cost_per_hour |-> 84000,
         compliance_frameworks |-> <<"ISO 27001", "NIST">>,
         key_metrics |-> <<"production_uptime", "mttr", "revenue_protection">>,
         breach_cost_multiplier |-> Q(120, 10)],
     financial |->
        [name |-> "Financial Services",
         downtime_cost_per_hour |-> 50000,
         compliance_frameworks |-> <<"OCC", "GLBA", "SOX", "PCI-DSS">>,
         key_metrics |-> <<"compliance_score", "transaction_uptime",
                           "regulatory_confidence">>,
         breach_cost_multiplier |-> Q(150, 10)],
     healthcare |->
        [name |-> "Healthcare Organizations",
         downtime_cost_per_hour |-> 120000,
         compliance_frameworks |-> <<"HIPAA", "HITECH">>,
         key_metrics |-> <<"ehr_uptime", "patient_safety_incidents",
                           "breach_detection_time">>,
         breach_cost_multiplier |-> Q(80, 10)]]

\* str.lower() on the industry names the model draws
LowerCase ==
    [Government |-> "government", Healthcare |-> "healthcare",
     MANUFACTURING |-> "manufacturing", Technology |-> "technology"]

Lower(str) == IF str \in DOMAIN LowerCase THEN LowerCase[str] ELSE str

\* ROIEngine(industry): self.industry and self.params
ROIEngine(industry_name) ==
    [industry |-> Lower(industry_name),
     params |-> Get(INDUSTRY_PARAMS, Lower(industry_name), INDUSTRY_PARAMS.government)]

\* total_risk_prevented / investment if investment > 0 else 0
roi_multiplier(total_risk_prevented, investment) ==
    IF investment.n > 0 THEN QDiv(total_risk_prevented, investment) ELSE QInt(0)

\* Format 1 (the presentation string is left out of the four formats)
calculate_risk_avoidance_roi(engine, investment, incidents_prevented, avg_incident_duration_hours) ==
    LET downtime_cost_per_hour == engine.params.downtime_cost_per_hour
        total_risk_prevented ==
            QMul(QInt(downtime_cost_per_hour * incidents_prevented),
                 avg_incident_duration_hours)
    IN  [format |-> "Risk Avoidance",
         investment |-> investment,
         downtime_cost_per_hour |-> downtime_cost_per_hour,
         incidents_prevented |-> incidents_prevented,
         avg_incident_duration_hours |-> avg_incident_duration_hours,
         total_risk_prevented |-> total_risk_prevented,
         net_roi |-> QSub(total_risk_prevented, investment),
         roi_multiplier |-> roi_multiplier(total_risk_prevented, investment)]

\* Format 2
calculate_efficiency_unlock_roi(hours_freed_annually, cost_per_hour, redeployment_value_multiplier) ==
    LET annual_savings == QMul(hours_freed_annually, cost_per_hour)
    IN  [format |-> "Efficiency Unlock",
         hours_freed_annually |-> hours_freed_annually,
         hours_per_week |-> QDiv(hours_freed_annually, QInt(52)),
         cost_per_hour |-> cost_per_hour,
         annual_savings |-> annual_savings,
         redeployment_value |-> QMul(annual_savings, redeployment_value_multiplier)]

\* Format 3
calculate_compliance_roi(current_compliance_pct, target_compliance_pct, penalty_at_current, cost_to_reach_target) ==
    LET compliance_gap == QSub(target_compliance_pct, current_compliance_pct)
        risk_reduction == QMul(penalty_at_current, QDiv(compliance_gap, QInt(100)))
    IN  [format |-> "Compliance/Risk Score",
         current_compliance |-> current_compliance_pct,
         target_compliance |-> target_compliance_pct,
         compliance_gap |-> compliance_gap,
         penalty_at_current |-> penalty_at_current,
         cost_to_reach_target |-> cost_to_reach_target,
         risk_reduction |-> risk_reduction,
         net_value |-> QSub(risk_reduction, cost_to_reach_target)]

\* Format 4
calculate_three_year_stacked_roi(year1_investment, year1_savings, efficiency_gain_multiplier) ==
    LET year1_net == QSub(year1_savings, year1_investment)
        year2_savings == QMul(year1_savings, efficiency_gain_multiplier)
        year3_savings == QMul(year2_savings, Q(125, 100))
    IN  [format |-> "Three-Year Stacked ROI",
         year1 |-> [investment |-> year1_investment, savings |-> year1_savings,
                    net |-> year1_net],
         year2 |-> [investment |-> QInt(0), savings |-> year2_savings,
                    net |-> year2_savings],
         year3 |-> [investment |-> QInt(0), savings |-> year3_savings,
                    net |-> year3_savings],
         cumulative_value |-> QAdd(QAdd(year1_net, year2_savings), year3_savings)]

\* f"{x:.0f}": the nearest whole number, a tie going to the even one
QRound(x) ==
    IF x.n >= 0 THEN RoundHalfEven(x.n, x.d) ELSE -RoundHalfEven(-x.n, x.d)

\* (budget - lower) / (upper - lower) * 100
Interpolate(total_budget, lower, upper) ==
    QMul(QDiv(QSub(total_budget, lower), QSub(upper, lower)), QInt(100))

\* mutant: the tier bounds compared with > for >=
get_budget_recommendation_strict(total_budget, tier1, tier1_2, all_tiers) ==
    IF QLess(all_tiers, total_budget)
    THEN [branch |-> "all three tiers", budget |-> QRound(total_budget)]
    ELSE IF QLess(tier1_2, total_budget)
    THEN [branch |-> "Tier 1+2 fully", budget |-> QRound(total_budget),
          pct |-> Interpolate(total_budget, tier1_2, all_tiers),
          percent |-> QRound(Interpolate(total_budget, tier1_2, all_tiers))]
    ELSE IF QLess(tier1, total_budget)
    THEN [branch |-> "Tier 1 fully", budget |-> QRound(total_budget),
          pct |-> Interpolate(total_budget, tier1, tier1_2),
          percent |-> QRound(Interpolate(total_budget, tier1, tier1_2))]
    ELSE [branch |-> "short of Tier 1", budget |-> QRound(total_budget),
          shortfall |-> QRound(QSub(tier1, total_budget))]

\* The message _get_budget_recommendation returns: its branch and the numbers
\* it prints (budget, percent, shortfall, to whole numbers), with the value of
\* pct before it is printed.
get_budget_recommendation(total_budget, tier1, tier1_2, all_tiers) ==
    IF QLeq(all_tiers, total_budget)
    THEN [branch |-> "all three tiers", budget |-> QRound(total_budget)]
    ELSE IF QLeq(tier1_2, total_budget)
    THEN [branch |-> "Tier 1+2 fully", budget |-> QRound(total_budget),
          pct |-> Interpolate(total_budget, tier1_2, all_tiers),
          percent |-> QRound(Interpolate(total_budget, tier1_2, all_tiers))]
    ELSE IF QLeq(tier1, total_budget)
    THEN [branch |-> "Tier 1 fully", budget |-> QRound(total_budget),
          pct |-> Interpolate(total_budget, tier1, tier1_2),
          percent |-> QRound(Interpolate(total_budget, tier1, tier1_2))]
    ELSE [branch |-> "short of Tier 1", budget |-> QRound(total_budget),
          shortfall |-> QRound(QSub(tier1, total_budget))]

\* the tier a gap's severity puts it in
TierOf(gap) ==
    LET severity == Get(gap, "severity", "Medium")
    IN  IF severity = "Critical" THEN 1 ELSE IF severity = "High" THEN 2 ELSE 3

\* the share of the current monthly cost an item of a tier is priced at
TierRate == <<Q(3, 10), Q(2, 10), Q(1, 10)>>

TierOutcome ==
    <<"Regulatory compliance maintained, 0 breaches",
      "Staff freed for core mission, downtime cut 75%",
      "Competitive advantage, better customer experience">>

\* mutant: High gaps filed with the remaining gaps
TierItemsHighLast(gs, tier, current_monthly_cost) ==
    LET sel == SelectSeq(gs, LAMBDA g :
                   (IF Get(g, "severity", "Medium") = "Critical" THEN 1 ELSE 3) = tier)
    IN  [i \in DOMAIN sel |->
            [issue |-> Get(sel[i], "issue", None),
             cost |-> QMul(current_monthly_cost, TierRate[tier]),
             outcome |-> TierOutcome[tier]]]

\* tierN_items after the loop over the gaps
TierItems(gs, tier, current_monthly_cost) ==
    LET sel == SelectSeq(gs, LAMBDA g : TierOf(g) = tier)
    IN  [i \in DOMAIN sel |->
            [issue |-> Get(sel[i], "issue", None),
             cost |-> QMul(current_monthly_cost, TierRate[tier]),
             outcome |-> TierOutcome[tier]]]

\* tierN_cost after the loop: tierN_cost += cost for each of its items
RECURSIVE TierCost(_)
TierCost(items) ==
    IF items = <<>> THEN QInt(0) ELSE QAdd(items[1].cost, TierCost(Tail(items)))

calculate_tiered_budget(total_budget, gs, current_monthly_cost) ==
    LET tier1_items == TierItems(gs, 1, current_monthly_cost)
        tier2_items == TierItems(gs, 2, current_monthly_cost)
        tier3_items == TierItems(gs, 3, current_monthly_cost)
        tier1_cost == TierCost(tier1_items)
        tier2_cost == TierCost(tier2_items)
        tier3_cost == TierCost(tier3_items)
        tier1_only == tier1_cost
        tier1_and_2 == QAdd(tier1_cost, tier2_cost)
        all_tiers == QAdd(QAdd(tier1_cost, tier2_cost), tier3_cost)
    IN  [tier1 |-> [name |-> "Table Stakes (Non-Negotiable)",
                    cost |-> tier1_cost, items |-> tier1_items],
         tier2 |-> [name |-> "Efficiency & Risk Reduction",
                    cost |-> tier2_cost, items |-> tier2_items],
         tier3 |-> [name |-> "Competitive Advantage",
                    cost |-> tier3_cost, items |-> tier3_items],
         budget_scenarios |->
            [tier1_only |-> [cost |-> tier1_only],
             tier1_and_2 |-> [cost |-> tier1_and_2],
             all_tiers |-> [cost |-> all_tiers]],
         recommendation |->
            get_budget_recommendation(total_budget, tier1_only, tier1_and_2, all_tiers)]

\* the industry's own metrics: the branch is chosen by self.industry, the
\* lower-cased constructor argument, not by the parameters in use
IndustryBranch(engine, s, ts) ==
    IF engine.industry = "government"
    THEN [uptime_pct |->
              QSub(QInt(100), QMul(Q(Get(s, "incident_volume", 0), 100), Q(1, 100))),
          cost_per_user_per_month |-> Get(s, "total_users", 1) * 25,
          audit_readiness_score |-> Get(s, "patch_compliance", 0)]
    ELSE IF engine.industry = "nonprofit"
    THEN [manual_hours_freed |->
              Q(Len(SelectSeq(ts, LAMBDA t : Get(t, "category", None)
                                    \in {"Password Reset", "Account Access"})), 2),
          ticket_backlog_days |-> 14,
          tech_spend_pct_of_budget |-> Q(35, 10)]
    ELSE IF engine.industry = "manufacturing"
    THEN [production_uptime_pct |->
              QSub(QInt(100), QMul(Q(Get(s, "incident_volume", 0), 100), Q(5, 1000))),
          mttr_minutes |-> 45,
          revenue_at_risk |-> engine.params.downtime_cost_per_hour * 24 * 365]
    ELSE IF engine.industry = "financial"
    THEN [regulatory_findings_closed |-> 23,
          compliance_score |-> Get(s, "patch_compliance", 0),
          transaction_uptime |-> Q(9997, 100)]
    ELSE IF engine.industry = "healthcare"
    THEN [ehr_uptime_pct |-> Q(9997, 100),
          patient_safety_incidents_prevented |->
              LET critical == Len(SelectSeq(ts, LAMBDA t :
                                      Get(t, "priority", None) = "Critical"))
              IN  IF 10 - critical > 0 THEN 10 - critical ELSE 0,
          breach_detection_time_minutes |-> 14]
    ELSE <<>>

generate_industry_metrics(engine, s, ts) ==
    [industry |-> engine.params.name,
     compliance_frameworks |-> engine.params.compliance_frameworks]
    @@ IndustryBranch(engine, s, ts)

\* ------------------------------------------------------ SegmentationService
TIER_THRESHOLDS == [platinum |-> 10000, gold |-> 5000, silver |-> 2000, bronze |-> 0]

IsActiveAgreement(a) == Get(a, "status", None) = "active"

\* sum(a.get('monthly_mrr', 0) for a in ...), in thousandths of a dollar
RECURSIVE SumMrr(_)
SumMrr(as) ==
    IF as = <<>> THEN 0 ELSE Get(as[1], "monthly_mrr", 0) + SumMrr(Tail(as))

\* mutant: the agreements of every status are summed
calculate_mrr_metrics_any_status(as) ==
    [total_mrr |-> SumMrr(as), trend |-> "stable", change_percentage |-> 0]

calculate_mrr_metrics(as) ==
    IF as = <<>>
    THEN [total_mrr |-> 0, trend |-> "stable", change_percentage |-> 0]
    ELSE [total_mrr |-> SumMrr(SelectSeq(as, IsActiveAgreement)),
          trend |-> "stable", change_percentage |-> 0]

\* total_mrr in thousandths of a dollar, the thresholds in dollars
calculate_tier(total_mrr) ==
    IF total_mrr >= TIER_THRESHOLDS.platinum * 1000 THEN "platinum"
    ELSE IF total_mrr >= TIER_THRESHOLDS.gold * 1000 THEN "gold"
    ELSE IF total_mrr >= TIER_THRESHOLDS.silver * 1000 THEN "silver"
    ELSE "bronze"

NoActiveDeduction == 30
NoMeetingsDeduction == 25
FewMeetingsDeduction == 15
NoReportsDeduction == 25
FewReportsDeduction == 10
PoorSecurityDeduction == 20
LowSecurityDeduction == 10
PoorSecurityBar == 50
LowSecurityBar == 70
ExcellentBar == 80
GoodBar == 60
AtRiskBar == 40

AgreementDeduction(as) ==
    IF as = <<>> \/ ~(\E i \in DOMAIN as : IsActiveAgreement(as[i]))
    THEN NoActiveDeduction ELSE 0

\* mutant: a single meeting loses both meeting deductions (if for elif)
MeetingDeductionBoth(ms) ==
    (IF Len(ms) = 0 THEN NoMeetingsDeduction ELSE 0)
    + (IF Len(ms) < 2 THEN FewMeetingsDeduction ELSE 0)

MeetingDeduction(ms) ==
    IF Len(ms) = 0 THEN NoMeetingsDeduction
    ELSE IF Len(ms) < 2 THEN FewMeetingsDeduction ELSE 0

ReportDeduction(rs) ==
    IF Len(rs) = 0 THEN NoReportsDeduction
    ELSE IF Len(rs) < 2 THEN FewReportsDeduction ELSE 0

\* latest_report = reports[0]; overall_score in thousandths, the bars in units
SecurityDeduction(rs) ==
    IF rs # <<>>
    THEN LET security_score == Get(rs[1], "overall_score", 0)
         IN  IF security_score < PoorSecurityBar * 1000 THEN PoorSecurityDeduction
             ELSE IF security_score < LowSecurityBar * 1000 THEN LowSecurityDeduction
             ELSE 0
    ELSE 0

HealthStatus(score) ==
    IF score >= ExcellentBar THEN "excellent"
    ELSE IF score >= GoodBar THEN "good"
    ELSE IF score >= AtRiskBar THEN "at_risk"
    ELSE "critical"

\* the status is taken from the score before it is floored at 0
calculate_health_score(as, ms, rs) ==
    LET score == 100 - AgreementDeduction(as) - MeetingDeduction(ms)
                 - ReportDeduction(rs) - SecurityDeduction(rs)
    IN  [score |-> IF score > 0 THEN score ELSE 0,
         status |-> HealthStatus(score),
         factors |->
            (IF AgreementDeduction(as) > 0 THEN <<"No active agreements">> ELSE <<>>)
            \o (IF MeetingDeduction(ms) = NoMeetingsDeduction
                THEN <<"No recent meetings">>
                ELSE IF MeetingDeduction(ms) > 0
                THEN <<"Low meeting frequency">> ELSE <<>>)
            \o (IF ReportDeduction(rs) = NoReportsDeduction
                THEN <<"No reports generated">>
                ELSE IF ReportDeduction(rs) > 0
                THEN <<"Infrequent reporting">> ELSE <<>>)
            \o (IF SecurityDeduction(rs) = PoorSecurityDeduction
                THEN <<"Poor security posture">>
                ELSE IF SecurityDeduction(rs) > 0
                THEN <<"Below-average security">> ELSE <<>>)]

\* min(100, total_mrr / 20000 * 100) rounded to one decimal, in tenths
calculate_tier_score(total_mrr) ==
    LET score == RoundHalfEven(total_mrr, 20000)
    IN  IF score < 1000 THEN score ELSE 1000

\* A date is <<year, month, day number>>, the day number counting the days
\* from a fixed day: ISO strings of one format order as their day numbers do.
Year(date) == date[1]
Month(date) == date[2]
DayNumber(date) == date[3]

\* the record of `rs` whose date field `key` is latest, the first of them in
\* list order (sorted(..., reverse=True)[0])
Latest(rs, key) ==
    LET best == CHOOSE i \in DOMAIN rs :
                    \A j \in DOMAIN rs :
                        \/ DayNumber(rs[j][key]) < DayNumber(rs[i][key])
                        \/ DayNumber(rs[j][key]) = DayNumber(rs[i][key]) /\ i <= j
    IN  rs[best]

calculate_engagement(ms, rs, now) ==
    [last_meeting_date |->
        IF ms # <<>> THEN Latest(ms, "scheduled_date").scheduled_date ELSE None,
     meetings_per_quarter |->
        Len(SelectSeq(ms, LAMBDA m : DayNumber(m.scheduled_date) >= DayNumber(now) - 90)),
     last_report_date |->
        IF rs # <<>> THEN Latest(rs, "generated_at").generated_at ELSE None]

\* mutant: the low-MRR term left out of the score
calculate_risk_no_mrr_term(mrr_data, health_data, engagement_data) ==
    LET mrr_risk == IF mrr_data.trend = "declining" THEN 30 ELSE 0
        health_risk == IF health_data.score < 50 THEN 30
                       ELSE IF health_data.score < 70 THEN 15 ELSE 0
        engagement_risk == IF engagement_data.meetings_per_quarter = 0 THEN 20 ELSE 0
        risk_score == mrr_risk + health_risk + engagement_risk
    IN  [level |-> IF risk_score >= 60 THEN "critical"
                   ELSE IF risk_score >= 40 THEN "high"
                   ELSE IF risk_score >= 20 THEN "medium"
                   ELSE "low",
         score |-> risk_score,
         factors |-> <<>>]

\* total_mrr in thousandths of a dollar
calculate_risk(mrr_data, health_data, engagement_data) ==
    LET mrr_risk == (IF mrr_data.trend = "declining" THEN 30 ELSE 0)
                    + (IF mrr_data.total_mrr < 1000 * 1000 THEN 20 ELSE 0)
        health_risk == IF health_data.score < 50 THEN 30
                       ELSE IF health_data.score < 70 THEN 15 ELSE 0
        engagement_risk == IF engagement_data.meetings_per_quarter = 0 THEN 20 ELSE 0
        risk_score == mrr_risk + health_risk + engagement_risk
    IN  [level |-> IF risk_score >= 60 THEN "critical"
                   ELSE IF risk_score >= 40 THEN "high"
                   ELSE IF risk_score >= 20 THEN "medium"
                   ELSE "low",
         score |-> risk_score,
         factors |->
            (IF mrr_data.trend = "declining" THEN <<"Declining MRR">> ELSE <<>>)
            \o (IF mrr_data.total_mrr < 1000 * 1000 THEN <<"Low MRR value">> ELSE <<>>)
            \o (IF health_data.score < 50 THEN <<"Critical health score">>
                ELSE IF health_data.score < 70 THEN <<"Below-average health">>
                ELSE <<>>)
            \o (IF engagement_data.meetings_per_quarter = 0
                THEN <<"No recent meetings">> ELSE <<>>)]

calculate_growth_potential(mrr_data, as) ==
    IF mrr_data.trend = "growing" THEN "high"
    ELSE IF mrr_data.total_mrr < 5000 * 1000 /\ Len(as) > 0 THEN "medium"
    ELSE "low"

\* months from the earliest agreement start date to today
calculate_tenure(as, now) ==
    LET dated == SelectSeq(as, LAMBDA a : "start_date" \in DOMAIN a)
    IN  IF as = <<>> \/ dated = <<>>
        THEN [customer_since |-> None, tenure_months |-> 0]
        ELSE LET first == CHOOSE i \in DOMAIN dated :
                              \A j \in DOMAIN dated :
                                  \/ DayNumber(dated[i].start_date) < DayNumber(dated[j].start_date)
                                  \/ /\ DayNumber(dated[i].start_date) = DayNumber(dated[j].start_date)
                                     /\ i <= j
                 customer_since == dated[first].start_date
                 tenure_months == (Year(now) - Year(customer_since)) * 12
                                  + (Month(now) - Month(customer_since))
             IN  [customer_since |-> customer_since,
                  tenure_months |-> IF tenure_months > 0 THEN tenure_months ELSE 0]

is_strategic_account(total_mrr, health_score) ==
    total_mrr >= 5000 * 1000 /\ health_score >= 70

\* tier.upper()
UpperCase ==
    [platinum |-> "PLATINUM", gold |-> "GOLD", silver |-> "SILVER", bronze |-> "BRONZE"]

generate_tags(tier, health_status, risk_level) ==
    <<UpperCase[tier]>>
    \o (IF health_status = "excellent" THEN <<"HEALTHY">>
        ELSE IF health_status \in {"at_risk", "critical"} THEN <<"NEEDS_ATTENTION">>
        ELSE <<>>)
    \o (IF risk_level \in {"high", "critical"} THEN <<"HIGH_RISK">> ELSE <<>>)

calculate_segmentation(customer_id, as, ms, rs, now) ==
    LET mrr_data == calculate_mrr_metrics(as)
        tier == calculate_tier(mrr_data.total_mrr)
        health_data == calculate_health_score(as, ms, rs)
        engagement_data == calculate_engagement(ms, rs, now)
        risk_data == calculate_risk(mrr_data, health_data, engagement_data)
        growth_potential == calculate_growth_potential(mrr_data, as)
        tenure_data == calculate_tenure(as, now)
    IN  [customer_id |-> customer_id,
         tier |-> tier,
         tier_score |-> calculate_tier_score(mrr_data.total_mrr),
         total_mrr |-> mrr_data.total_mrr,
         mrr_trend |-> mrr_data.trend,
         mrr_change_percentage |-> mrr_data.change_percentage,
         lifetime_value |-> mrr_data.total_mrr * tenure_data.tenure_months,
         customer_since |-> tenure_data.customer_since,
         tenure_months |-> tenure_data.tenure_months,
         health_score |-> health_data.score,
         health_status |-> health_data.status,
         last_meeting_date |-> engagement_data.last_meeting_date,
         meetings_per_quarter |-> engagement_data.meetings_per_quarter,
         last_report_date |-> engagement_data.last_report_date,
         risk_level |-> risk_data.level,
         risk_factors |-> risk_data.factors,
         strategic_account |-> is_strategic_account(mrr_data.total_mrr, health_data.score),
         growth_potential |-> growth_potential,
         tags |-> generate_tags(tier, health_data.status, risk_data.level),
         last_calculated |-> now,
         calculation_version |-> "1.0"]

\* ------------------------------------------------------------------ Config
\* Config.THRESHOLD_* and Config.COST_* defaults
DefaultPatchThreshold == 95
DefaultBackupThreshold == 98
DefaultEdrThreshold == 90
DefaultSlaThreshold == 90
DefaultMfaCost == 3000
DefaultEdrCost == 5500
DefaultBackupCost == 45000
DefaultSiemCost == 6500

ConfigThresholds ==
    [THRESHOLD_PATCH_COMPLIANCE |-> DefaultPatchThreshold,
     THRESHOLD_BACKUP_SUCCESS   |-> DefaultBackupThreshold,
     THRESHOLD_EDR_COVERAGE     |-> DefaultEdrThreshold,
     THRESHOLD_SLA_ATTAINMENT   |-> DefaultSlaThreshold]

ConfigUnitCosts ==
    [COST_MFA_PER_USER      |-> DefaultMfaCost,
     COST_EDR_PER_ENDPOINT  |-> DefaultEdrCost,
     COST_BACKUP_PER_SERVER |-> DefaultBackupCost,
     COST_SIEM_PER_USER     |-> DefaultSiemCost]

\* ------------------------------------------------------------------ inputs
\* Lists of at most n records of `kinds`, in the order of `kinds`
ListsOf(kinds, n) ==
    UNION {{[i \in 1..m |-> kinds[ix[i]]] :
              ix \in {f \in [1..m -> 1..Len(kinds)] :
                        \A i \in 1..(m - 1) : f[i] <= f[i + 1]}} : m \in 0..n}

\* records as HaloConnector returns them
AssetKinds ==
    <<[type |-> "Server", patchstatus |-> "Compliant",
       antivirusstatus |-> "Protected", backup_enabled |-> TRUE],
      [type |-> "Server", patchstatus |-> "OutOfDate",
       antivirusstatus |-> "Disabled", backup_enabled |-> FALSE],
      [type |-> "Workstation", patchstatus |-> "UpToDate",
       antivirusstatus |-> "Enabled", backup_enabled |-> FALSE],
      [type |-> "Laptop", patchstatus |-> "Unknown",
       antivirusstatus |-> "Disabled", backup_enabled |-> TRUE],
      [type |-> "Mobile", patchstatus |-> "Compliant",
       antivirusstatus |-> "Protected", backup_enabled |-> FALSE]>>

TicketKinds ==
    <<[priority |-> "Normal", met_sla |-> TRUE],
      [priority |-> "Critical", met_sla |-> FALSE],
      [priority |-> "High", sla_met |-> TRUE]>>

UserKinds ==
    <<[name |-> "User 0", active |-> TRUE],
      [name |-> "User 1", active |-> FALSE],
      [name |-> "User 2"]>>

\* the mock customer is of industry 'Technology'; a cached customer can be of
\* any industry or of none
CustomerKinds ==
    {[name |-> "Acme Corporation", industry |-> "Technology", mfa_enforced |-> TRUE],
     [name |-> "Acme Corporation", industry |-> "Healthcare", mfa_enforced |-> FALSE],
     [name |-> "Acme Corporation"]}

Empty == <<>>

\* the results of one run of the pipeline
Results ==
    [signals |-> signals, nist_scores |-> nist_scores, gaps |-> gaps,
     recommendations |-> recommendations, budget |-> budget, roi |-> roi,
     industry_metrics |-> industry_metrics, tiered_budget |-> tiered_budget]

\* ------------------------------------------------ generate_review pipeline
Init ==
    /\ pc = "idle"
    /\ thresholds = ConfigThresholds
    /\ unit_costs = ConfigUnitCosts
    /\ customer = Empty /\ assets = Empty /\ tickets = Empty /\ users = Empty
    /\ signals = Empty /\ nist_scores = Empty /\ gaps = Empty
    /\ recommendations = Empty /\ budget = Empty
    /\ roi_engine = Empty /\ annual_investment = 0 /\ critical_incidents = 0
    /\ roi = Empty /\ industry_metrics = Empty /\ tiered_budget = Empty
    /\ agreements = Empty /\ meetings = Empty /\ reports = Empty /\ segment = Empty
    /\ client_segmentation = Empty /\ requests = Empty
    /\ tie_dir = None /\ run = 1 /\ error = None

\* Step 1: halo.get_customer / get_assets / get_tickets / get_users
FetchData ==
    /\ pc = "idle"
    /\ customer' \in CustomerKinds
    /\ assets' \in ListsOf(AssetKinds, MaxAssets)
    /\ tickets' \in ListsOf(TicketKinds, MaxTickets)
    /\ users' \in ListsOf(UserKinds, MaxUsers)
    /\ pc' = "fetched"
    /\ UNCHANGED <<config, signals, nist_scores, gaps, recommendations, budget,
                   roi_vars, seg_vars, tie_dir, run, error>>

\* Step 2
DeriveSignals ==
    /\ pc = "fetched"
    /\ signals' = derive_signals(customer, assets, tickets, users)
    /\ pc' = "signals"
    /\ UNCHANGED <<raw, config, nist_scores, gaps, recommendations, budget,
                   roi_vars, seg_vars, tie_dir, run, error>>

\* how the Overall of the vector x fell: None where the sum is not at a tie
TieDir(outcomes, x) ==
    IF Cardinality(outcomes) = 1 THEN None
    ELSE IF \A y \in outcomes : x.Overall <= y.Overall THEN "down" ELSE "up"

\* Step 3. The double sum of one input falls the same way each time it is
\* computed: tie_dir keeps the way it fell.
CalculateNistScores ==
    /\ pc = "signals"
    /\ nist_scores' \in calculate_nist_scores(signals)
    /\ tie_dir' = TieDir(calculate_nist_scores(signals), nist_scores')
    /\ tie_dir \in {None, tie_dir'}
    /\ pc' = "scored"
    /\ UNCHANGED <<raw, config, signals, gaps, recommendations, budget,
                   roi_vars, seg_vars, run, error>>

\* mutant: the engine keeps one gap list and appends to it on every call
IdentifyGapsAccumulate ==
    /\ pc = "scored"
    /\ gaps' = gaps \o identify_gaps(thresholds, signals)
    /\ pc' = "gaps"
    /\ UNCHANGED <<raw, config, signals, nist_scores, recommendations, budget,
                   roi_vars, seg_vars, tie_dir, run, error>>

\* Step 4
IdentifyGaps ==
    /\ pc = "scored"
    /\ IF identify_gaps_raises(thresholds, signals)
       THEN /\ error' = "KeyError"
            /\ pc' = "failed"
            /\ UNCHANGED gaps
       ELSE /\ gaps' = identify_gaps(thresholds, signals)
            /\ pc' = "gaps"
            /\ UNCHANGED error
    /\ UNCHANGED <<raw, config, signals, nist_scores, recommendations, budget,
                   roi_vars, seg_vars, tie_dir, run>>

\* Step 5
GenerateRecommendations ==
    /\ pc = "gaps"
    /\ recommendations' = generate_recommendations(gaps, signals)
    /\ pc' = "recommended"
    /\ UNCHANGED <<raw, config, signals, nist_scores, gaps, budget,
                   roi_vars, seg_vars, tie_dir, run, error>>

\* Step 6
CalculateBudget ==
    /\ pc = "recommended"
    /\ IF calculate_budget_raises(unit_costs, signals, gaps)
       THEN /\ error' = "KeyError"
            /\ pc' = "failed"
            /\ UNCHANGED budget
       ELSE /\ budget' = calculate_budget(unit_costs, signals, gaps)
            /\ pc' = "budget"
            /\ UNCHANGED error
    /\ UNCHANGED <<raw, config, signals, nist_scores, gaps, recommendations,
                   roi_vars, seg_vars, tie_dir, run>>

\* the amounts and results of the ROI calls of Step 7b
RoiStep(engine, critical, investment, sc, ts) ==
    LET risk_avoidance ==
            calculate_risk_avoidance_roi(engine, investment,
                IF critical > 3 THEN critical ELSE 3, QInt(6))
    IN  [risk_avoidance |-> risk_avoidance,
         efficiency |->
             calculate_efficiency_unlock_roi(QMul(QInt(Len(ts)), Q(25, 100)),
                                             QInt(50), Q(15, 10)),
         compliance |->
             calculate_compliance_roi(
                 QMul(Q(Get(sc, "Overall", 0), 1000), QInt(100)),
                 QInt(100), QInt(250000), investment),
         three_year |->
             calculate_three_year_stacked_roi(investment,
                 QMul(risk_avoidance.total_risk_prevented, Q(3, 10)), Q(15, 10))]

\* mutant: the tiered budget is given the monthly total as total_budget
CalculateRoiMonthlyBudget ==
    /\ pc = "budget"
    /\ roi_engine' = ROIEngine(Get(customer, "industry", "government"))
    /\ critical_incidents' =
           Len(SelectSeq(tickets, LAMBDA t : Get(t, "priority", None) = "Critical"))
    /\ annual_investment' = Get(budget, "total_monthly", 0) * 12
    /\ roi' = RoiStep(roi_engine', critical_incidents', Dollars(annual_investment'),
                      nist_scores, tickets)
    /\ industry_metrics' = generate_industry_metrics(roi_engine', signals, tickets)
    /\ tiered_budget' =
           calculate_tiered_budget(Dollars(Get(budget, "total_monthly", 0)), gaps,
                                   Dollars(Get(budget, "total_monthly", 0)))
    /\ pc' = "roi"
    /\ UNCHANGED <<raw, config, signals, nist_scores, gaps, recommendations,
                   budget, seg_vars, tie_dir, run, error>>

\* Step 7b: the engine of the customer's industry, the four ROI formats, the
\* industry metrics and the tiered budget
CalculateRoi ==
    /\ pc = "budget"
    /\ roi_engine' = ROIEngine(Get(customer, "industry", "government"))
    /\ critical_incidents' =
           Len(SelectSeq(tickets, LAMBDA t : Get(t, "priority", None) = "Critical"))
    /\ annual_investment' = Get(budget, "total_monthly", 0) * 12
    /\ roi' = RoiStep(roi_engine', critical_incidents', Dollars(annual_investment'),
                      nist_scores, tickets)
    /\ industry_metrics' = generate_industry_metrics(roi_engine', signals, tickets)
    /\ tiered_budget' =
           calculate_tiered_budget(Dollars(annual_investment'), gaps,
                                   Dollars(Get(budget, "total_monthly", 0)))
    /\ pc' = "roi"
    /\ UNCHANGED <<raw, config, signals, nist_scores, gaps, recommendations,
                   budget, seg_vars, tie_dir, run, error>>

\* A second request for the same customer, Halo returning the same records:
\* the module-level engines are the same instances and the results of the
\* first request are what the second is compared with.
RepeatReview ==
    /\ pc = "roi"
    /\ run = 1
    /\ run' = 2
    /\ pc' = "fetched"
    /\ UNCHANGED <<raw, config, signals, nist_scores, gaps, recommendations,
                   budget, roi_vars, seg_vars, tie_dir, error>>

Next ==
    \/ FetchData
    \/ DeriveSignals
    \/ CalculateNistScores
    \/ IdentifyGaps
    \/ GenerateRecommendations
    \/ CalculateBudget
    \/ CalculateRoi
    \/ RepeatReview

Spec == Init /\ [][Next]_vars

\* ------------------------------------- ScoringEngine on any signal mapping
PctKeys == {"patch_compliance", "backup_status", "mfa", "edr", "response_time_sla"}
PctChoices == {3333, 8000, 10000}
ThresholdChoices == {80, 95}

\* the mapping holding the keys of f whose value is not negative
Mapping(f) == [k \in {x \in DOMAIN f : f[x] >= 0} |-> f[k]]

\* signal mappings, a key absent where the choice is -1
ScoringSignals ==
    {Mapping(p @@ [total_assets |-> a]) :
        p \in [PctKeys -> PctChoices \cup {-1}], a \in {-1, MaxCount}}

ThresholdConfigs ==
    [{"THRESHOLD_PATCH_COMPLIANCE", "THRESHOLD_BACKUP_SUCCESS",
      "THRESHOLD_EDR_COVERAGE", "THRESHOLD_SLA_ATTAINMENT"} -> ThresholdChoices]

\* ScoringEngine(thresholds), called on a signal mapping
InitScoring ==
    /\ pc = "signals"
    /\ thresholds \in ThresholdConfigs
    /\ unit_costs = ConfigUnitCosts
    /\ signals \in ScoringSignals
    /\ customer = Empty /\ assets = Empty /\ tickets = Empty /\ users = Empty
    /\ nist_scores = Empty /\ gaps = Empty /\ budget = Empty
    /\ recommendations = Empty
    /\ roi_engine = Empty /\ annual_investment = 0 /\ critical_incidents = 0
    /\ roi = Empty /\ industry_metrics = Empty /\ tiered_budget = Empty
    /\ agreements = Empty /\ meetings = Empty /\ reports = Empty /\ segment = Empty
    /\ client_segmentation = Empty /\ requests = Empty
    /\ tie_dir = None /\ run = 1 /\ error = None

NextScoring ==
    \/ CalculateNistScores
    \/ IdentifyGaps

SpecScoring == InitScoring /\ [][NextScoring]_vars

\* -------------------------------- BudgetEngine on any signals and gap list
CoverageChoices == {0, 3333, 5000}

BudgetSignals ==
    [total_users : 0..MaxCount, total_endpoints : 0..MaxCount,
     total_servers : 0..MaxCount, edr : CoverageChoices,
     backup_status : CoverageChoices]

\* the signal and severity pairs identify_gaps emits, in its order
GapKinds ==
    <<[signal |-> "patch_compliance", severity |-> "High"],
      [signal |-> "backup_status", severity |-> "Critical"],
      [signal |-> "edr", severity |-> "High"],
      [signal |-> "response_time_sla", severity |-> "Medium"],
      [signal |-> "mfa", severity |-> "Critical"]>>

\* unit costs of more than two decimals: 0.004, 2.996, 0, 0.004
SubCentUnitCosts ==
    [COST_MFA_PER_USER      |-> 4,
     COST_EDR_PER_ENDPOINT  |-> 2996,
     COST_BACKUP_PER_SERVER |-> 0,
     COST_SIEM_PER_USER     |-> 4]

UnitCostConfigs == {ConfigUnitCosts, SubCentUnitCosts}

\* BudgetEngine(unit_costs), called on signals and a gap list
InitBudget ==
    /\ pc = "recommended"
    /\ thresholds = ConfigThresholds
    /\ unit_costs \in UnitCostConfigs
    /\ signals \in BudgetSignals
    /\ gaps \in ListsOf(GapKinds, MaxGaps)
    /\ customer = Empty /\ assets = Empty /\ tickets = Empty /\ users = Empty
    /\ nist_scores = Empty /\ budget = Empty
    /\ recommendations = Empty
    /\ roi_engine = Empty /\ annual_investment = 0 /\ critical_incidents = 0
    /\ roi = Empty /\ industry_metrics = Empty /\ tiered_budget = Empty
    /\ agreements = Empty /\ meetings = Empty /\ reports = Empty /\ segment = Empty
    /\ client_segmentation = Empty /\ requests = Empty
    /\ tie_dir = None /\ run = 1 /\ error = None

NextBudget == CalculateBudget

SpecBudget == InitBudget /\ [][NextBudget]_vars

\* the variables a specification of direct calls leaves at their initial value
PipelineIdle ==
    /\ customer = Empty /\ assets = Empty /\ users = Empty
    /\ nist_scores = Empty /\ recommendations = Empty
    /\ roi_engine = Empty /\ critical_incidents = 0
    /\ roi = Empty /\ industry_metrics = Empty /\ tiered_budget = Empty
    /\ agreements = Empty /\ meetings = Empty /\ reports = Empty /\ segment = Empty
    /\ client_segmentation = Empty /\ requests = Empty
    /\ tie_dir = None /\ run = 1 /\ error = None

\* ----------------------- ROIEngine.calculate_tiered_budget on any arguments
\* gaps of each severity, one of a severity of no tier of its own and one
\* without a severity
TierGapKinds ==
    <<[signal |-> "backup_status", severity |-> "Critical",
       issue |-> "Backup coverage below best practice threshold"],
      [signal |-> "edr", severity |-> "High",
       issue |-> "EDR/Antivirus coverage below best practice threshold"],
      [signal |-> "response_time_sla", severity |-> "Medium",
       issue |-> "SLA attainment below target"],
      [signal |-> "custom", severity |-> "Low", issue |-> "Custom finding"],
      [signal |-> "custom"]>>

\* total_budget and the cumulative tier totals, in thousandths of a dollar
BudgetChoices == {0, 500000, 1000000, 1500000, 2990000, 3000000, 3250000,
                  3500000, 4000000}
TierTotalChoices == {0, 1000000, 3000000, 3500000}

\* current_monthly_cost: -1.00, 0, 0.004, 16.50
MonthlyCostChoices == {-1000, 0, 4, 16500}

InitTier ==
    /\ pc = "call"
    /\ thresholds = ConfigThresholds
    /\ unit_costs = ConfigUnitCosts
    /\ annual_investment \in BudgetChoices
    /\ gaps \in ListsOf(TierGapKinds, MaxGaps)
    /\ budget \in {[total_monthly |-> m] : m \in MonthlyCostChoices}
    /\ signals = Empty /\ tickets = Empty
    /\ PipelineIdle

\* roi_engine.calculate_tiered_budget(total_budget, gaps, current_monthly_cost)
CallTieredBudget ==
    /\ pc = "call"
    /\ tiered_budget' =
           calculate_tiered_budget(Dollars(annual_investment), gaps,
                                   Dollars(budget.total_monthly))
    /\ pc' = "tiered"
    /\ UNCHANGED <<raw, config, signals, nist_scores, gaps, recommendations,
                   budget, roi_engine, annual_investment, critical_incidents,
                   roi, industry_metrics, seg_vars, tie_dir, run, error>>

\* self._get_budget_recommendation(budget, tier1, tier1_2, all_tiers)
CallBudgetRecommendation ==
    /\ pc = "call"
    /\ \E tier1 \in TierTotalChoices, tier1_2 \in TierTotalChoices,
          all_tiers \in TierTotalChoices :
          tiered_budget' =
              [budget_scenarios |->
                  [tier1_only |-> [cost |-> Dollars(tier1)],
                   tier1_and_2 |-> [cost |-> Dollars(tier1_2)],
                   all_tiers |-> [cost |-> Dollars(all_tiers)]],
               recommendation |->
                  get_budget_recommendation(Dollars(annual_investment),
                      Dollars(tier1), Dollars(tier1_2), Dollars(all_tiers))]
    /\ pc' = "recommendation"
    /\ UNCHANGED <<raw, config, signals, nist_scores, gaps, recommendations,
                   budget, roi_engine, annual_investment, critical_incidents,
                   roi, industry_metrics, seg_vars, tie_dir, run, error>>

NextTier ==
    \/ CallTieredBudget
    \/ CallBudgetRecommendation

SpecTier == InitTier /\ [][NextTier]_vars

\* ------------------------------ engines built from a configuration with
\* ------------------------------ keys missing
\* the mappings holding some of the keys of f
PartialConfigs(f) == {[k \in K |-> f[k]] : K \in SUBSET DOMAIN f}

\* user, endpoint and server counts with half of the population uncovered
ConfigSignals ==
    [total_users : {0, MaxCount}, total_endpoints : {0, MaxCount},
     total_servers : {0, MaxCount}, edr : {5000}, backup_status : {5000}]

\* ScoringEngine(thresholds).identify_gaps(signals) or
\* BudgetEngine(unit_costs).calculate_budget(signals, gaps) about to be called
InitConfig ==
    /\ pc \in {"scored", "recommended"}
    /\ thresholds \in PartialConfigs(ConfigThresholds)
    /\ unit_costs \in PartialConfigs(ConfigUnitCosts)
    /\ IF pc = "scored"
       THEN /\ unit_costs = ConfigUnitCosts
            /\ signals \in ScoringSignals
            /\ gaps = Empty
       ELSE /\ thresholds = ConfigThresholds
            /\ signals \in ConfigSignals
            /\ gaps \in ListsOf(GapKinds, MaxGaps)
    /\ budget = Empty /\ tickets = Empty /\ annual_investment = 0
    /\ PipelineIdle

NextConfig ==
    \/ IdentifyGaps
    \/ CalculateBudget

SpecConfig == InitConfig /\ [][NextConfig]_vars

\* ------------------------------------ ROIEngine of any industry, any call
MaxIncidents == 3

\* the industry argument: the five industries in some spellings and two
\* values outside them
IndustryChoices ==
    {"government", "Government", "nonprofit", "MANUFACTURING", "financial",
     "Healthcare", "Technology", "retail"}

\* investment in thousandths of a dollar: -1000.00, 0, 0.50, 198.00
InvestmentChoices == {-1000000, 0, 500, 198000}

\* avg_incident_duration_hours: the default 6.0 and 1.5
DurationChoices == {QInt(6), Q(3, 2)}

RoiSignals ==
    {<<>>,
     [incident_volume |-> 67, total_users |-> 2, patch_compliance |-> 6667],
     [incident_volume |-> 0, total_users |-> 0, patch_compliance |-> 10000]}

RoiTicketKinds ==
    <<[priority |-> "Critical", category |-> "Outage"],
      [priority |-> "Normal", category |-> "Password Reset"]>>

InitRoi ==
    /\ pc = "new"
    /\ thresholds = ConfigThresholds
    /\ unit_costs = ConfigUnitCosts
    /\ customer \in {[industry |-> i] : i \in IndustryChoices}
    /\ annual_investment \in InvestmentChoices
    /\ critical_incidents \in 0..MaxIncidents
    /\ signals \in RoiSignals
    /\ tickets \in ListsOf(RoiTicketKinds, MaxTickets)
    /\ assets = Empty /\ users = Empty
    /\ nist_scores = Empty /\ gaps = Empty /\ recommendations = Empty
    /\ budget = Empty /\ roi_engine = Empty
    /\ roi = Empty /\ industry_metrics = Empty /\ tiered_budget = Empty
    /\ agreements = Empty /\ meetings = Empty /\ reports = Empty /\ segment = Empty
    /\ client_segmentation = Empty /\ requests = Empty
    /\ tie_dir = None /\ run = 1 /\ error = None

\* ROIEngine(industry=industry)
NewROIEngine ==
    /\ pc = "new"
    /\ roi_engine' = ROIEngine(customer.industry)
    /\ pc' = "engine"
    /\ UNCHANGED <<raw, config, signals, nist_scores, gaps, recommendations,
                   budget, annual_investment, critical_incidents, roi,
                   industry_metrics, tiered_budget, seg_vars, tie_dir, run, error>>

\* roi_engine.calculate_risk_avoidance_roi(investment, incidents_prevented,
\* avg_incident_duration_hours)
CallRiskAvoidance ==
    /\ pc = "engine"
    /\ \E hours \in DurationChoices :
          roi' = [risk_avoidance |->
                     calculate_risk_avoidance_roi(roi_engine,
                         Dollars(annual_investment), critical_incidents, hours)]
    /\ pc' = "risk"
    /\ UNCHANGED <<raw, config, signals, nist_scores, gaps, recommendations,
                   budget, roi_engine, annual_investment, critical_incidents,
                   industry_metrics, tiered_budget, seg_vars, tie_dir, run, error>>

\* roi_engine.generate_industry_metrics(signals, tickets)
CallIndustryMetrics ==
    /\ pc = "engine"
    /\ industry_metrics' = generate_industry_metrics(roi_engine, signals, tickets)
    /\ pc' = "metrics"
    /\ UNCHANGED <<raw, config, signals, nist_scores, gaps, recommendations,
                   budget, roi_engine, annual_investment, critical_incidents,
                   roi, tiered_budget, seg_vars, tie_dir, run, error>>

NextRoi ==
    \/ NewROIEngine
    \/ CallRiskAvoidance
    \/ CallIndustryMetrics

SpecRoi == InitRoi /\ [][NextRoi]_vars

\* ------------------------- SegmentationService on any agreements, meetings
\* ------------------------- and reports
MaxAgreements == 2
MaxMeetings == 2
MaxReports == 2

\* datetime.utcnow() at the call: 4 November 2026
Now == <<2026, 11, 1000>>

\* ClientAgreement.to_dict(): monthly_mrr 10000.00, 4999.00, 5000.99, and an
\* agreement that is not active; the last a mapping without the optional keys
AgreementKinds ==
    <<[status |-> "active", monthly_mrr |-> 10000000, start_date |-> <<2025, 2, 365>>],
      [status |-> "active", monthly_mrr |-> 4999000, start_date |-> <<2026, 5, 820>>],
      [status |-> "active", monthly_mrr |-> 5000990, start_date |-> <<2024, 11, 270>>],
      [status |-> "cancelled", monthly_mrr |-> 10000000, start_date |-> <<2023, 12, 1>>],
      [status |-> "active"]>>

\* Meeting.to_dict(): a meeting within the last 90 days and an older one
MeetingKinds ==
    <<[scheduled_date |-> <<2026, 4, 800>>],
      [scheduled_date |-> <<2026, 10, 990>>]>>

\* ReportRun.to_dict(): overall_score 0.45, 1.0, 65.0 and 85.0 (thousandths),
\* and a mapping without the score
ReportKinds ==
    <<[generated_at |-> <<2026, 9, 950>>, overall_score |-> 85000],
      [generated_at |-> <<2026, 10, 985>>, overall_score |-> 450],
      [generated_at |-> <<2026, 6, 860>>, overall_score |-> 65000],
      [generated_at |-> <<2026, 8, 920>>, overall_score |-> 1000],
      [generated_at |-> <<2026, 3, 770>>]>>

InitSegmentation ==
    /\ pc = "call"
    /\ thresholds = ConfigThresholds
    /\ unit_costs = ConfigUnitCosts
    /\ customer = [id |-> 1]
    /\ agreements \in ListsOf(AgreementKinds, MaxAgreements)
    /\ meetings \in ListsOf(MeetingKinds, MaxMeetings)
    /\ reports \in ListsOf(ReportKinds, MaxReports)
    /\ segment = Empty /\ client_segmentation = Empty /\ requests = Empty
    /\ assets = Empty /\ tickets = Empty /\ users = Empty
    /\ signals = Empty /\ nist_scores = Empty /\ gaps = Empty
    /\ recommendations = Empty /\ budget = Empty
    /\ roi_engine = Empty /\ annual_investment = 0 /\ critical_incidents = 0
    /\ roi = Empty /\ industry_metrics = Empty /\ tiered_budget = Empty
    /\ tie_dir = None /\ run = 1 /\ error = None

\* segmentation_service.calculate_segmentation(customer_id, agreements,
\* meetings, reports)
CalculateSegmentation ==
    /\ pc = "call"
    /\ segment' = calculate_segmentation(customer.id, agreements, meetings, reports, Now)
    /\ pc' = "segmented"
    /\ UNCHANGED <<raw, config, signals, nist_scores, gaps, recommendations,
                   budget, roi_vars, agreements, meetings, reports,
                   client_segmentation, requests, tie_dir, run, error>>

NextSegmentation == CalculateSegmentation

SpecSegmentation == InitSegmentation /\ [][NextSegmentation]_vars

\* --------------------- _calculate_risk and _generate_tags on any arguments
InitRisk ==
    /\ pc = "call"
    /\ thresholds = ConfigThresholds
    /\ unit_costs = ConfigUnitCosts
    /\ budget = Empty /\ tickets = Empty /\ annual_investment = 0
    /\ signals = Empty /\ gaps = Empty
    /\ PipelineIdle

\* self._calculate_risk(mrr_data, health_data, engagement_data) on a total_mrr
\* of 0, 999.99, 1000.00 or 12000.00; the arguments are kept beside the result
CallCalculateRisk ==
    /\ pc = "call"
    /\ \E total_mrr \in {0, 999990, 1000000, 12000000},
          trend \in {"stable", "declining", "growing"},
          score \in {15, 49, 50, 69, 70, 100},
          meetings_per_quarter \in 0..MaxMeetings :
          LET mrr_data == [total_mrr |-> total_mrr, trend |-> trend,
                           change_percentage |-> 0]
              health_data == [score |-> score, status |-> HealthStatus(score)]
              engagement_data == [meetings_per_quarter |-> meetings_per_quarter]
          IN  segment' = [mrr_data |-> mrr_data, health_data |-> health_data,
                          engagement_data |-> engagement_data,
                          risk_data |-> calculate_risk(mrr_data, health_data,
                                                       engagement_data)]
    /\ pc' = "risk"
    /\ UNCHANGED <<raw, config, signals, nist_scores, gaps, recommendations,
                   budget, roi_vars, agreements, meetings, reports,
                   client_segmentation, requests, tie_dir, run, error>>

\* self._generate_tags(tier, health_data['status'], risk_data['level'])
CallGenerateTags ==
    /\ pc = "risk"
    /\ segment' = segment @@
           [tags |-> generate_tags(calculate_tier(segment.mrr_data.total_mrr),
                                   segment.health_data.status,
                                   segment.risk_data.level)]
    /\ pc' = "tagged"
    /\ UNCHANGED <<raw, config, signals, nist_scores, gaps, recommendations,
                   budget, roi_vars, agreements, meetings, reports,
                   client_segmentation, requests, tie_dir, run, error>>

SpecRisk == InitRisk /\ [][CallCalculateRisk \/ CallGenerateTags]_vars

\* ------------------------ lifecycle routes over the segmentation table
MaxRequests == 2

AtRest == [op |-> None, pc |-> "idle"]

\* a request slot takes a new request once its last one has been answered
Free(r) == requests[r].pc \in {"idle", "done", "failed"}

\* one customer; `slots` requests at a time (one: requests one after another)
InitLifecycle(slots) ==
    /\ pc = "serving"
    /\ thresholds = ConfigThresholds
    /\ unit_costs = ConfigUnitCosts
    /\ customer = [id |-> 1]
    /\ agreements = Empty /\ meetings = Empty /\ reports = Empty
    /\ segment = Empty /\ client_segmentation = Empty
    /\ requests = [r \in 1..slots |-> AtRest]
    /\ assets = Empty /\ tickets = Empty /\ users = Empty
    /\ signals = Empty /\ nist_scores = Empty /\ gaps = Empty
    /\ recommendations = Empty /\ budget = Empty
    /\ roi_engine = Empty /\ annual_investment = 0 /\ critical_incidents = 0
    /\ roi = Empty /\ industry_metrics = Empty /\ tiered_budget = Empty
    /\ tie_dir = None /\ run = 1 /\ error = None

LifecycleUnchanged ==
    UNCHANGED <<raw, config, signals, nist_scores, gaps, recommendations, budget,
                roi_vars, meetings, reports, segment, tie_dir, run, error, pc>>

\* POST /agreements: the agreement is committed, then the recalculation runs
CreateAgreement(r) ==
    /\ Free(r)
    /\ Len(agreements) < MaxAgreements
    /\ \E monthly_mrr \in {4999000, 5000990} :
          agreements' = Append(agreements,
              [id |-> Len(agreements) + 1, status |-> "active",
               monthly_mrr |-> monthly_mrr, start_date |-> <<2026, 5, 820>>])
    /\ requests' = [requests EXCEPT ![r] = [op |-> "create_agreement", pc |-> "recalculate"]]
    /\ UNCHANGED client_segmentation
    /\ LifecycleUnchanged

\* PUT /agreements/<id>: monthly_mrr or status is changed and committed, then
\* the recalculation runs
UpdateAgreement(r) ==
    /\ Free(r)
    /\ \E i \in DOMAIN agreements :
          \E data \in {[monthly_mrr |-> 10000000], [status |-> "cancelled"]} :
             agreements' = [agreements EXCEPT ![i] =
                 [id |-> @.id,
                  status |-> Get(data, "status", @.status),
                  monthly_mrr |-> Get(data, "monthly_mrr", @.monthly_mrr),
                  start_date |-> @.start_date]]
    /\ requests' = [requests EXCEPT ![r] = [op |-> "update_agreement", pc |-> "recalculate"]]
    /\ UNCHANGED client_segmentation
    /\ LifecycleUnchanged

\* GET /segmentation/<customer_id>: the stored row if there is one, else the
\* recalculation
GetSegmentation(r) ==
    /\ Free(r)
    /\ requests' = [requests EXCEPT ![r] =
           IF client_segmentation # <<>>
           THEN [op |-> "get_segmentation", pc |-> "done",
                 response |-> client_segmentation[1]]
           ELSE [op |-> "get_segmentation", pc |-> "recalculate"]]
    /\ UNCHANGED <<agreements, client_segmentation>>
    /\ LifecycleUnchanged

\* POST /segmentation/<customer_id>/recalculate
RecalculateSegmentation(r) ==
    /\ Free(r)
    /\ requests' = [requests EXCEPT ![r] = [op |-> "recalculate", pc |-> "recalculate"]]
    /\ UNCHANGED <<agreements, client_segmentation>>
    /\ LifecycleUnchanged

\* _recalculate_segmentation: the three queries and calculate_segmentation
QueryAndCalculate(r) ==
    /\ requests[r].pc = "recalculate"
    /\ requests' = [requests EXCEPT ![r] =
           [op |-> @.op, pc |-> "calculated",
            segment_data |-> calculate_segmentation(customer.id, agreements,
                                                    meetings, reports, Now)]]
    /\ UNCHANGED <<agreements, client_segmentation>>
    /\ LifecycleUnchanged

\* _recalculate_segmentation: segment = ClientSegmentation.query...first(),
\* kept as the id of the row found (ids start at 1), 0 when it is None
QuerySegment(r) ==
    /\ requests[r].pc = "calculated"
    /\ requests' = [requests EXCEPT ![r] =
           [op |-> @.op, pc |-> "queried", segment_data |-> @.segment_data,
            segment |-> IF client_segmentation # <<>>
                        THEN client_segmentation[1].id ELSE 0]]
    /\ UNCHANGED <<agreements, client_segmentation>>
    /\ LifecycleUnchanged

\* a commit that adds a row whether or not one was found
CommitSegmentAdds(r) ==
    /\ requests[r].pc = "queried"
    /\ LET row == [id |-> Len(client_segmentation) + 1] @@ requests[r].segment_data
       IN  /\ client_segmentation' = Append(client_segmentation, row)
           /\ requests' = [requests EXCEPT ![r] =
                 [op |-> @.op, pc |-> "done", response |-> row]]
    /\ UNCHANGED agreements
    /\ LifecycleUnchanged

\* _recalculate_segmentation: the row found is updated in place, or a row is
\* added; db.session.commit() refuses a second row of one customer_id
\* (unique=True) with an IntegrityError
CommitSegment(r) ==
    /\ requests[r].pc = "queried"
    /\ LET row == [id |-> IF requests[r].segment # 0 THEN requests[r].segment
                          ELSE Len(client_segmentation) + 1]
                  @@ requests[r].segment_data
       IN  IF requests[r].segment # 0
           THEN /\ client_segmentation' =
                      [i \in DOMAIN client_segmentation |->
                          IF client_segmentation[i].id = row.id
                          THEN row ELSE client_segmentation[i]]
                /\ requests' = [requests EXCEPT ![r] =
                      [op |-> @.op, pc |-> "done", response |-> row]]
           ELSE IF \E i \in DOMAIN client_segmentation :
                      client_segmentation[i].customer_id = row.customer_id
           THEN /\ UNCHANGED client_segmentation
                /\ requests' = [requests EXCEPT ![r] =
                      [op |-> @.op, pc |-> "failed", response |-> "IntegrityError"]]
           ELSE /\ client_segmentation' = Append(client_segmentation, row)
                /\ requests' = [requests EXCEPT ![r] =
                      [op |-> @.op, pc |-> "done", response |-> row]]
    /\ UNCHANGED agreements
    /\ LifecycleUnchanged

NextLifecycle ==
    \/ \E r \in DOMAIN requests : CreateAgreement(r)
    \/ \E r \in DOMAIN requests : UpdateAgreement(r)
    \/ \E r \in DOMAIN requests : GetSegmentation(r)
    \/ \E r \in DOMAIN requests : RecalculateSegmentation(r)
    \/ \E r \in DOMAIN requests : QueryAndCalculate(r)
    \/ \E r \in DOMAIN requests : QuerySegment(r)
    \/ \E r \in DOMAIN requests : CommitSegment(r)

\* the requests served one after another
SpecLifecycle == InitLifecycle(1) /\ [][NextLifecycle]_vars

\* up to MaxRequests requests served at a time
SpecConcurrent == InitLifecycle(MaxRequests) /\ [][NextLifecycle]_vars

\* ================================================================== claims
\* the value identify_gaps reads for a signal
SignalValue(signal) == Get(signals, signal, 0)

SignalsDone == pc \in {"signals", "scored", "gaps", "recommended", "budget", "roi"}

\* the five checks in evaluation order: signal, severity, bar in percent
Checks ==
    <<[signal |-> "patch_compliance", severity |-> "High",
       bar |-> thresholds.THRESHOLD_PATCH_COMPLIANCE],
      [signal |-> "backup_status", severity |-> "Critical",
       bar |-> thresholds.THRESHOLD_BACKUP_SUCCESS],
      [signal |-> "edr", severity |-> "High",
       bar |-> thresholds.THRESHOLD_EDR_COVERAGE],
      [signal |-> "response_time_sla", severity |-> "Medium",
       bar |-> thresholds.THRESHOLD_SLA_ATTAINMENT],
      [signal |-> "mfa", severity |-> "Critical", bar |-> 100]>>

GapsOf(gs, signal) == {i \in DOMAIN gs : gs[i].signal = signal}

\* C1: identify_gaps returns exactly one gap for each of the five checks that
\* fires (signal < its threshold, mfa < 100 whatever the thresholds) and none
\* for a check that does not fire, in the order patch, backup, EDR, SLA, MFA,
\* with severities High, Critical, High, Medium, Critical, current_value the
\* signal's value and threshold the configured threshold (100 for MFA).
C1_GapsMatchChecks ==
    (pc = "gaps") =>
        /\ \A c \in DOMAIN Checks :
              Cardinality(GapsOf(gaps, Checks[c].signal)) =
                 IF SignalValue(Checks[c].signal) < Checks[c].bar * 100 THEN 1 ELSE 0
        /\ \A i \in DOMAIN gaps :
              \E c \in DOMAIN Checks :
                 /\ gaps[i].signal = Checks[c].signal
                 /\ gaps[i].severity = Checks[c].severity
                 /\ gaps[i].threshold = Checks[c].bar
                 /\ gaps[i].current_value = SignalValue(Checks[c].signal)
                 /\ \A j \in DOMAIN gaps :
                       j > i => \E d \in DOMAIN Checks :
                                   d > c /\ gaps[j].signal = Checks[d].signal

\* C1 witness: the spec's scenario (patch_compliance 80 under a threshold of
\* 95) in a run where all five checks fire, one of them on an absent signal.
C1_Witness ==
    /\ pc = "gaps"
    /\ Len(gaps) = 5
    /\ thresholds.THRESHOLD_PATCH_COMPLIANCE = 95
    /\ SignalValue("patch_compliance") = 8000
    /\ "edr" \notin DOMAIN signals
    /\ [g \in DOMAIN gaps |-> gaps[g].signal] =
          <<"patch_compliance", "backup_status", "edr", "response_time_sla", "mfa">>

\* ---- calculate_budget
ItemsOf(service) ==
    {i \in DOMAIN budget.services : budget.services[i].service = service}

SomeGap(signal) == \E i \in DOMAIN gaps : gaps[i].signal = signal

\* trunc(count * (1 - coverage / 100)), the coverage in hundredths of a percent
TruncUncovered(count, coverage) == (count * (10000 - coverage)) \div 10000

\* x rounded to two decimals (half a cent never occurs with the unit costs used)
ToCents(x) == ((x + 5) \div 10) * 10

\* the service has exactly one line item, of this quantity and unit rate,
\* costing quantity * rate a month (to the cent)
OneItem(service, quantity, rate) ==
    /\ Cardinality(ItemsOf(service)) = 1
    /\ \A i \in ItemsOf(service) :
          /\ budget.services[i].quantity = quantity
          /\ budget.services[i].unit_cost = rate
          /\ budget.services[i].monthly_cost = ToCents(quantity * rate)

NoServerAsset == \A i \in DOMAIN assets : assets[i].type # "Server"

\* C3: derive_signals returns backup_status = 100 whenever the asset list
\* holds no asset of type Server, the empty asset list included.
C3_NoServersFullBackup ==
    (SignalsDone /\ NoServerAsset) => signals.backup_status = 10000

\* C4: for every customer record and every list of assets, tickets and users,
\* derive_signals returns patch_compliance, backup_status, mfa, edr and
\* response_time_sla within [0, 100] and incident_volume >= 0.
C4_SignalsInRange ==
    SignalsDone =>
        /\ \A k \in PctKeys : signals[k] >= 0 /\ signals[k] <= 10000
        /\ signals.incident_volume >= 0

\* C4 witness: signals strictly inside the range beside signals at both ends,
\* derived from a list holding an asset outside the EDR population.
C4_Witness ==
    /\ pc = "signals"
    /\ signals.patch_compliance = 6667
    /\ signals.edr = 5000
    /\ signals.backup_status = 0
    /\ signals.mfa = 10000
    /\ signals.response_time_sla = 0
    /\ signals.incident_volume = 33
    /\ \E i \in DOMAIN assets : assets[i].type = "Mobile"

\* ---- calculate_nist_scores
ScoresDone == pc \in {"scored", "gaps", "recommended", "budget", "roi"}

Categories == {"Identify", "Protect", "Detect", "Respond", "Recover"}

\* 0.15 Identify + 0.30 Protect + 0.20 Detect + 0.20 Respond + 0.15 Recover
\* of the returned category scores, in 1/100000
ReturnedWeightedSum ==
    15 * nist_scores.Identify + 30 * nist_scores.Protect
    + 20 * nist_scores.Detect + 20 * nist_scores.Respond
    + 15 * nist_scores.Recover

\* C5: for every signal mapping with percentage signals in [0, 100],
\* calculate_nist_scores returns Identify, Protect, Detect, Respond, Recover
\* and Overall in [0, 1], Overall being the weighted sum (weights 0.15, 0.30,
\* 0.20, 0.20, 0.15, which sum to 1) of the already rounded category scores,
\* rounded to 3 decimals (a nearest thousandth of that sum).
C5_ScoresInRangeOverallWeighted ==
    ScoresDone =>
        /\ \A c \in Categories \cup {"Overall"} :
              nist_scores[c] >= 0 /\ nist_scores[c] <= 1000
        /\ 100 * nist_scores.Overall - ReturnedWeightedSum <= 50
        /\ ReturnedWeightedSum - 100 * nist_scores.Overall <= 50
        /\ WeightIdentify + WeightProtect + WeightDetect + WeightRespond
           + WeightRecover = 100

\* C5 witness: category scores that were themselves rounded (33.33 percent
\* gives 0.333) and an Overall that is not a whole multiple of the sum.
C5_Witness ==
    /\ pc = "scored"
    /\ SignalValue("edr") = 3333 /\ nist_scores.Detect = 333
    /\ SignalValue("patch_compliance") = 10000 /\ SignalValue("mfa") = 3333
    /\ SignalValue("backup_status") = 8000 /\ nist_scores.Protect = 617
    /\ nist_scores.Identify = 1000
    /\ ReturnedWeightedSum # 100 * nist_scores.Overall

\* ---- identify_gaps under a lowered threshold
ThresholdSignal ==
    [THRESHOLD_PATCH_COMPLIANCE |-> "patch_compliance",
     THRESHOLD_BACKUP_SUCCESS   |-> "backup_status",
     THRESHOLD_EDR_COVERAGE     |-> "edr",
     THRESHOLD_SLA_ATTAINMENT   |-> "response_time_sla"]

OtherGaps(gs, signal) == SelectSeq(gs, LAMBDA g : g.signal # signal)

\* the gap list of the same signals with threshold `key` lowered to `bar`
GapsWithLowered(key, bar) == identify_gaps([thresholds EXCEPT ![key] = bar], signals)

\* C7: with the signals and the other three thresholds fixed, lowering one
\* threshold yields the original gap list with at most the gap of that
\* threshold's own signal removed: no gap is added, and the gaps of the other
\* signals (mfa included) and their order are unchanged.
C7_LoweringOnlyRemovesOwnGap ==
    (pc = "gaps") =>
        \A key \in DOMAIN thresholds : \A bar \in ThresholdChoices :
            bar < thresholds[key] =>
                LET lowered == GapsWithLowered(key, bar)
                    own == ThresholdSignal[key]
                IN  /\ OtherGaps(lowered, own) = OtherGaps(gaps, own)
                    /\ Cardinality(GapsOf(lowered, own)) <= Cardinality(GapsOf(gaps, own))
                    /\ \/ lowered = OtherGaps(gaps, own)
                       \/ [i \in DOMAIN lowered |-> lowered[i].signal]
                             = [i \in DOMAIN gaps |-> gaps[i].signal]

\* C7 witness: a run whose patch gap disappears when the patch threshold is
\* lowered from 95 to 80 while its edr, SLA and MFA gaps stay.
C7_Witness ==
    /\ pc = "gaps"
    /\ thresholds.THRESHOLD_PATCH_COMPLIANCE = 95
    /\ SignalValue("patch_compliance") = 8000
    /\ GapsOf(gaps, "patch_compliance") # {}
    /\ GapsOf(GapsWithLowered("THRESHOLD_PATCH_COMPLIANCE", 80), "patch_compliance") = {}
    /\ Len(GapsWithLowered("THRESHOLD_PATCH_COMPLIANCE", 80)) = 3
    /\ Len(gaps) = 4

\* ---- the all-100 scenario
AllHundred ==
    /\ signals.total_assets > 0
    /\ \A k \in PctKeys : signals[k] = 10000
    /\ \A key \in DOMAIN thresholds : thresholds[key] <= 100

\* C6: whenever total_assets > 0 and patch_compliance, backup_status, mfa, edr
\* and response_time_sla are all 100 (every threshold at most 100), all six
\* scores are 1.0, identify_gaps returns the empty list and calculate_budget
\* returns no line item and totals of 0, whatever total_users,
\* total_endpoints and total_servers are.
C6_PerfectPosture ==
    (pc = "budget" /\ AllHundred) =>
        /\ \A c \in Categories \cup {"Overall"} : nist_scores[c] = 1000
        /\ gaps = <<>>
        /\ budget.services = <<>>
        /\ budget.total_monthly = 0
        /\ budget.total_annual = 0

\* C6 witness: the all-100 scenario with users, endpoints and servers present.
C6_Witness ==
    /\ pc = "budget" /\ AllHundred
    /\ signals.total_users > 0
    /\ signals.total_endpoints > 0
    /\ signals.total_servers > 0

\* ---- SIEM, totals and annual amounts of calculate_budget
HighOrCritical == {i \in DOMAIN gaps : gaps[i].severity \in {"High", "Critical"}}

\* C8: calculate_budget contains the SIEM item iff at least 3 gaps have
\* severity High or Critical and total_users > 0, whatever signals those gaps
\* reference and whether or not another item was added; it costs total_users
\* times the per-user SIEM rate a month and carries the explanatory note.
C8_SiemIffThreeSevereGaps ==
    (pc = "budget") =>
        IF Cardinality(HighOrCritical) >= 3 /\ signals.total_users > 0
        THEN /\ OneItem("SIEM / Security Monitoring", signals.total_users,
                        unit_costs.COST_SIEM_PER_USER)
             /\ \A i \in ItemsOf("SIEM / Security Monitoring") :
                   /\ "note" \in DOMAIN budget.services[i]
                   /\ budget.services[i].note = "Recommended due to multiple security gaps"
        ELSE ItemsOf("SIEM / Security Monitoring") = {}

\* C8 witness: the SIEM item as the only line item, added for three High gaps
\* that all reference patch_compliance.
C8_Witness ==
    /\ pc = "budget"
    /\ Len(gaps) = 3
    /\ \A i \in DOMAIN gaps : gaps[i].signal = "patch_compliance"
    /\ Len(budget.services) = 1
    /\ ItemsOf("SIEM / Security Monitoring") = {1}

RECURSIVE SumMonthlyCost(_)
SumMonthlyCost(items) ==
    IF items = <<>> THEN 0
    ELSE items[1].monthly_cost + SumMonthlyCost(Tail(items))

\* C9: in every result of calculate_budget, for all signals, gap lists and
\* non-negative unit costs (of more than two decimals too), total_monthly is
\* the sum of monthly_cost over the returned line items and is >= 0.
C9_TotalIsSumOfItems ==
    (pc = "budget") =>
        /\ budget.total_monthly = SumMonthlyCost(budget.services)
        /\ budget.total_monthly >= 0

\* C10: every line item returned by calculate_budget has annual_cost =
\* monthly_cost * 12 exactly, and total_annual = total_monthly * 12 exactly,
\* for all quantities and all non-negative unit costs.
C10_AnnualIsTwelveMonths ==
    (pc = "budget") =>
        /\ \A i \in DOMAIN budget.services :
              budget.services[i].annual_cost = budget.services[i].monthly_cost * 12
        /\ budget.total_annual = budget.total_monthly * 12

\* ----------------------------------------------------------------- C11
Scenario(name) == tiered_budget.budget_scenarios[name].cost

\* pct is (budget - lower) / (upper - lower) * 100 with upper above lower,
\* and lies in [0, 100)
IsInterpolation(pct, lower, upper) ==
    /\ QLess(lower, upper)
    /\ QMul(pct, QSub(upper, lower))
           = QMul(QSub(Dollars(annual_investment), lower), QInt(100))
    /\ QLeq(QInt(0), pct)
    /\ QLess(pct, QInt(100))

\* C11: _get_budget_recommendation picks exactly one of four branches, tested
\* in this order: budget >= all_tiers gives the all-three-tiers message; else
\* budget >= tier1+2 gives 'Tier 1+2 fully' with pct = (budget - tier1_2) /
\* (all_tiers - tier1_2) * 100 of Tier 3; else budget >= tier1 gives 'Tier 1
\* fully' with pct = (budget - tier1) / (tier1_2 - tier1) * 100 of Tier 2; else
\* the shortfall message with shortfall = tier1 - budget. In both partial
\* branches the denominator is strictly positive and 0 <= pct < 100; totals
\* 1000/3000/3500 with budget 1500 give the Tier 1 branch with 25%.
C11_RecommendationLadder ==
    (pc = "recommendation") =>
        LET total_budget == Dollars(annual_investment)
            tier1 == Scenario("tier1_only")
            tier1_2 == Scenario("tier1_and_2")
            all_tiers == Scenario("all_tiers")
            r == tiered_budget.recommendation
        IN  /\ IF QLeq(all_tiers, total_budget)
               THEN r.branch = "all three tiers"
               ELSE IF QLeq(tier1_2, total_budget)
               THEN /\ r.branch = "Tier 1+2 fully"
                    /\ IsInterpolation(r.pct, tier1_2, all_tiers)
               ELSE IF QLeq(tier1, total_budget)
               THEN /\ r.branch = "Tier 1 fully"
                    /\ IsInterpolation(r.pct, tier1, tier1_2)
               ELSE /\ r.branch = "short of Tier 1"
                    /\ r.shortfall = QRound(QSub(tier1, total_budget))
            /\ (/\ annual_investment = 1500000 /\ tier1 = QInt(1000)
                /\ tier1_2 = QInt(3000) /\ all_tiers = QInt(3500))
               => (r.branch = "Tier 1 fully" /\ r.pct = QInt(25))

\* the example of the claim: cumulative totals 1000/3000/3500, budget 1500
C11_Witness ==
    /\ pc = "recommendation"
    /\ annual_investment = 1500000
    /\ Scenario("tier1_only") = QInt(1000)
    /\ Scenario("tier1_and_2") = QInt(3000)
    /\ Scenario("all_tiers") = QInt(3500)
    /\ tiered_budget.recommendation.branch = "Tier 1 fully"
    /\ tiered_budget.recommendation.percent = 25

\* ----------------------------------------------------------------- tiers
Tier(n) == tiered_budget[<<"tier1", "tier2", "tier3">>[n]]

\* the gaps whose severity is `severity`, or, for None, any other or none
GapsOfSeverity(severity) ==
    SelectSeq(gaps, LAMBDA g :
        IF severity = None
        THEN "severity" \notin DOMAIN g \/ g.severity \notin {"Critical", "High"}
        ELSE "severity" \in DOMAIN g /\ g.severity = severity)

TierSeverity == <<"Critical", "High", None>>

RECURSIVE SumItemCost(_)
SumItemCost(items) ==
    IF items = <<>> THEN QInt(0)
    ELSE QAdd(items[1].cost, SumItemCost(Tail(items)))

\* C12: calculate_tiered_budget places every gap in exactly one tier item list
\* (Critical in tier1, High in tier2, any other or missing severity in tier3,
\* each list in gap order), prices each item at 30%, 20% and 10% of
\* current_monthly_cost, sets each tier's cost to the sum of its items' costs,
\* reports tier1_only = tier1 cost, tier1_and_2 = tier1 + tier2, all_tiers =
\* tier1 + tier2 + tier3, and tier1_only <= tier1_and_2 <= all_tiers whenever
\* current_monthly_cost >= 0.
C12_TiersPartitionAndPrice ==
    (pc = "tiered") =>
        LET m == Dollars(budget.total_monthly)
            percent == <<30, 20, 10>>
        IN  /\ Len(Tier(1).items) + Len(Tier(2).items) + Len(Tier(3).items) = Len(gaps)
            /\ \A n \in 1..3 :
                  LET of == GapsOfSeverity(TierSeverity[n])
                  IN  /\ Len(Tier(n).items) = Len(of)
                      /\ \A i \in DOMAIN of :
                            /\ Tier(n).items[i].issue = Get(of[i], "issue", None)
                            /\ QMul(Tier(n).items[i].cost, QInt(100))
                                  = QMul(m, QInt(percent[n]))
                      /\ Tier(n).cost = SumItemCost(Tier(n).items)
            /\ Scenario("tier1_only") = Tier(1).cost
            /\ Scenario("tier1_and_2") = QAdd(Tier(1).cost, Tier(2).cost)
            /\ Scenario("all_tiers") = QAdd(QAdd(Tier(1).cost, Tier(2).cost), Tier(3).cost)
            /\ budget.total_monthly >= 0 =>
                  /\ QLeq(Scenario("tier1_only"), Scenario("tier1_and_2"))
                  /\ QLeq(Scenario("tier1_and_2"), Scenario("all_tiers"))

\* C12 witness: a Critical gap, a High gap and a gap without a severity over a
\* monthly cost of 16.50: one item a tier, priced 4.95, 3.30 and 1.65.
C12_Witness ==
    /\ pc = "tiered"
    /\ budget.total_monthly = 16500
    /\ Len(gaps) = 3
    /\ \E i \in DOMAIN gaps : "severity" \notin DOMAIN gaps[i]
    /\ Tier(1).cost = Q(495, 100)
    /\ Tier(2).cost = Q(330, 100)
    /\ Len(Tier(3).items) = 1 /\ Tier(3).items[1].cost = Q(165, 100)
    /\ Tier(3).items[1].issue = None
    /\ Scenario("all_tiers") = Q(990, 100)

NoEdrAsset == \A i \in DOMAIN assets : ~IsEdrEndpoint(assets[i])

\* C14: derive_signals does not fail on empty inputs and returns the stated
\* defaults: with an empty asset list patch_compliance = 0, edr = 0 and
\* total_assets = total_servers = total_endpoints = 0 (so Identify = 0.0);
\* with assets but no Workstation, Laptop or Server edr = 0; with an empty
\* ticket list response_time_sla = 100 and incident_volume = 0; with an empty
\* user list total_users = 0.
C14_EmptyInputDefaults ==
    /\ (pc = "fetched") => ENABLED DeriveSignals
    /\ SignalsDone =>
          /\ (assets = <<>>) =>
                /\ signals.patch_compliance = 0 /\ signals.edr = 0
                /\ signals.total_assets = 0 /\ signals.total_servers = 0
                /\ signals.total_endpoints = 0
                /\ ScoresDone => nist_scores.Identify = 0
          /\ (assets # <<>> /\ NoEdrAsset) => signals.edr = 0
          /\ (tickets = <<>>) =>
                signals.response_time_sla = 10000 /\ signals.incident_volume = 0
          /\ (users = <<>>) => signals.total_users = 0

\* C14 witness: signals and scores of a customer with no asset, ticket or user
C14_Witness ==
    /\ pc = "scored"
    /\ assets = <<>> /\ tickets = <<>> /\ users = <<>>
    /\ signals.response_time_sla = 10000
    /\ nist_scores.Identify = 0

\* ------------------------------------------------------ missing config keys
ThresholdKeys == DOMAIN ConfigThresholds
UnitCostKeys == DOMAIN ConfigUnitCosts

\* C15: a missing configuration key is always fatal: identify_gaps returns a
\* gap list only if none of the 4 threshold keys is absent, whatever the
\* signal mapping, and calculate_budget returns a budget only if none of the 4
\* unit-cost keys is absent, whatever the signals and gaps.
C15_MissingKeyAlwaysFatal ==
    /\ (pc = "gaps") => DOMAIN thresholds = ThresholdKeys
    /\ (pc = "budget") => DOMAIN unit_costs = UnitCostKeys

\* ------------------------------------------------------------ active users
FlaggedActive(u) == "active" \in DOMAIN u /\ u.active = TRUE

\* C16: total_users returned by derive_signals counts exactly the user
\* records flagged active; a user record without an `active` field is treated
\* as not active and is not counted.
C16_TotalUsersCountsFlaggedActive ==
    SignalsDone => signals.total_users = Len(SelectSeq(users, FlaggedActive))

\* ------------------------------------------------------------- ROIEngine
\* the industry the engine was constructed with is none of the five
UnrecognisedIndustry == Lower(customer.industry) \notin DOMAIN INDUSTRY_PARAMS

GovernmentMetricKeys == {"uptime_pct", "cost_per_user_per_month", "audit_readiness_score"}

\* C17: an ROIEngine constructed with an industry outside government,
\* nonprofit, manufacturing, financial and healthcare (compared without
\* regard to case) behaves in every operation like one constructed with
\* 'government': the same downtime cost per hour and compliance frameworks,
\* the same risk-avoidance result, and generate_industry_metrics returns the
\* government metric set (uptime_pct, cost_per_user_per_month,
\* audit_readiness_score) beside the industry name and the frameworks.
C17_UnrecognisedIsGovernment ==
    UnrecognisedIndustry =>
        /\ (pc = "engine") => roi_engine.params = INDUSTRY_PARAMS.government
        /\ (pc = "risk") =>
              roi.risk_avoidance =
                 calculate_risk_avoidance_roi(ROIEngine("government"),
                     roi.risk_avoidance.investment,
                     roi.risk_avoidance.incidents_prevented,
                     roi.risk_avoidance.avg_incident_duration_hours)
        /\ (pc = "metrics") =>
              /\ GovernmentMetricKeys \subseteq DOMAIN industry_metrics
              /\ industry_metrics =
                    generate_industry_metrics(ROIEngine("government"), signals, tickets)

\* C18: calculate_risk_avoidance_roi returns total_risk_prevented = the
\* industry's downtime_cost_per_hour x incidents_prevented x
\* avg_incident_duration_hours, net_roi = total_risk_prevented - investment,
\* roi_multiplier = total_risk_prevented / investment for every investment
\* other than 0 and roi_multiplier = 0 when investment is 0; it returns for
\* every investment.
C18_RiskAvoidanceFormulas ==
    /\ (pc = "engine") => ENABLED CallRiskAvoidance
    /\ (pc = "risk") =>
          LET r == roi.risk_avoidance
              investment == Dollars(annual_investment)
              total == QMul(QMul(QInt(roi_engine.params.downtime_cost_per_hour),
                                 QInt(critical_incidents)),
                            r.avg_incident_duration_hours)
          IN  /\ r.total_risk_prevented = total
              /\ r.net_roi = QSub(total, investment)
              /\ r.roi_multiplier =
                    IF investment = QInt(0) THEN QInt(0) ELSE QDiv(total, investment)

\* ---------------------------------------------------------- segmentation
RECURSIVE ActiveMrr(_)
ActiveMrr(as) ==
    IF as = <<>> THEN 0
    ELSE (IF "status" \in DOMAIN as[1] /\ as[1].status = "active"
             /\ "monthly_mrr" \in DOMAIN as[1]
          THEN as[1].monthly_mrr ELSE 0) + ActiveMrr(Tail(as))

TierRank == [bronze |-> 0, silver |-> 1, gold |-> 2, platinum |-> 3]

\* the tier of the band an MRR (in thousandths of a dollar) lies in
TierBand(mrr) ==
    IF mrr >= 10000000 THEN "platinum"
    ELSE IF 5000000 <= mrr /\ mrr < 10000000 THEN "gold"
    ELSE IF 2000000 <= mrr /\ mrr < 5000000 THEN "silver"
    ELSE "bronze"

\* C19: the segmentation tier is a monotonic step function of total MRR with
\* inclusive lower bounds (MRR >= 10000 platinum; 5000 <= MRR < 10000 gold;
\* 2000 <= MRR < 5000 silver; MRR < 2000 bronze), total MRR being the sum of
\* monthly_mrr over the agreements whose status is 'active' (0 when there are
\* no agreements); an agreement list of a higher MRR never has a lower tier.
C19_TierStepFunctionOfActiveMrr ==
    (pc = "segmented") =>
        /\ segment.total_mrr = ActiveMrr(agreements)
        /\ (agreements = <<>>) => segment.total_mrr = 0
        /\ segment.tier = TierBand(segment.total_mrr)
        /\ \A other \in ListsOf(AgreementKinds, MaxAgreements) :
              LET raised == calculate_mrr_metrics(other).total_mrr
              IN  raised >= segment.total_mrr =>
                     TierRank[calculate_tier(raised)] >= TierRank[segment.tier]

\* C19 witness: an active agreement of exactly 10000 beside a cancelled one of
\* 10000 gives MRR 10000 and platinum
C19_Witness ==
    /\ pc = "segmented"
    /\ Len(agreements) = 2
    /\ \E i \in DOMAIN agreements : agreements[i].status = "cancelled"
    /\ segment.total_mrr = 10000000
    /\ segment.tier = "platinum"

\* the deductions D of the health score
HealthDeductions ==
    (IF \A i \in DOMAIN agreements :
           ~("status" \in DOMAIN agreements[i] /\ agreements[i].status = "active")
     THEN 30 ELSE 0)
    + (IF Len(meetings) = 0 THEN 25 ELSE IF Len(meetings) < 2 THEN 15 ELSE 0)
    + (IF Len(reports) = 0 THEN 25 ELSE IF Len(reports) < 2 THEN 10 ELSE 0)
    + (IF Len(reports) = 0 THEN 0
       ELSE LET report_score == Get(reports[1], "overall_score", 0)
            IN  IF report_score < 50000 THEN 20
                ELSE IF report_score < 70000 THEN 10 ELSE 0)

\* C20: _calculate_health_score returns score = max(0, 100 - D), D adding 30
\* if no agreement is active, 25 if there are no meetings else 15 if fewer
\* than 2, 25 if there are no reports else 10 if fewer than 2, and (only when
\* reports exist) 20 if the report score is < 50 else 10 if it is < 70; the
\* returned health_status is the band of the returned score (>= 80 excellent,
\* >= 60 good, >= 40 at_risk, otherwise critical) and the returned score is
\* within [0, 100].
C20_HealthScoreAndBand ==
    (pc = "segmented") =>
        /\ segment.health_score =
              IF 100 - HealthDeductions > 0 THEN 100 - HealthDeductions ELSE 0
        /\ segment.health_status =
              IF segment.health_score >= 80 THEN "excellent"
              ELSE IF segment.health_score >= 60 THEN "good"
              ELSE IF segment.health_score >= 40 THEN "at_risk"
              ELSE "critical"
        /\ segment.health_score >= 0 /\ segment.health_score <= 100

\* C20 witness: the largest deduction (no active agreement, no meeting, one
\* report of a score below 50) gives 15 and critical; the floor is not reached
C20_Witness ==
    /\ pc = "segmented"
    /\ agreements = <<>> /\ meetings = <<>>
    /\ Len(reports) = 1 /\ Get(reports[1], "overall_score", 0) = 450
    /\ segment.health_score = 15
    /\ segment.health_status = "critical"

\* ------------------------------------------------------------------ risk
\* the risk score of the arguments kept in `segment`
RiskSum ==
    (IF segment.mrr_data.trend = "declining" THEN 30 ELSE 0)
    + (IF segment.mrr_data.total_mrr < 1000000 THEN 20 ELSE 0)
    + (IF segment.health_data.score < 50 THEN 30
       ELSE IF segment.health_data.score < 70 THEN 15 ELSE 0)
    + (IF segment.engagement_data.meetings_per_quarter = 0 THEN 20 ELSE 0)

HasTag(tag) == \E i \in DOMAIN segment.tags : segment.tags[i] = tag

\* C21: _calculate_risk returns risk score = 30 if the MRR trend is declining
\* + 20 if total MRR < 1000 + (30 if health score < 50, else 15 if health
\* score < 70) + 20 if meetings_per_quarter is 0, and risk_level = critical if
\* the score >= 60, high if >= 40, medium if >= 20, otherwise low; the tag
\* HIGH_RISK is present exactly when risk_level is high or critical.
C21_RiskScoreLevelAndTag ==
    (pc \in {"risk", "tagged"}) =>
        /\ segment.risk_data.score = RiskSum
        /\ segment.risk_data.level =
              IF RiskSum >= 60 THEN "critical"
              ELSE IF RiskSum >= 40 THEN "high"
              ELSE IF RiskSum >= 20 THEN "medium"
              ELSE "low"
        /\ (pc = "tagged") =>
              (HasTag("HIGH_RISK") <=> segment.risk_data.level \in {"high", "critical"})

\* C21 witness: declining MRR of 999.99, health 49 and no meeting this
\* quarter give the largest score, 100, critical and the HIGH_RISK tag
C21_Witness ==
    /\ pc = "tagged"
    /\ segment.mrr_data.trend = "declining"
    /\ segment.mrr_data.total_mrr = 999990
    /\ segment.health_data.score = 49
    /\ segment.engagement_data.meetings_per_quarter = 0
    /\ segment.risk_data.score = 100
    /\ segment.risk_data.level = "critical"
    /\ HasTag("HIGH_RISK")

\* the row calculate_segmentation gives for the agreements, meetings and
\* reports stored now
CurrentRow(id) ==
    [id |-> id] @@ calculate_segmentation(customer.id, agreements, meetings, reports, Now)

\* C22: with the requests served one after another, the table never holds more
\* than one segmentation row of the customer; the commit of a recalculation
\* that found a row leaves that row, with its id, holding the result for the
\* stored agreements; a read that found no row ends with one row stored and
\* returned; a read that found a row returns it and leaves the table alone.
C22_OneSegmentationRow ==
    [][/\ Len(client_segmentation') <= 1
       /\ (requests[1].pc = "queried" /\ client_segmentation # <<>>)
             => /\ requests'[1].pc = "done"
                /\ client_segmentation' = <<CurrentRow(client_segmentation[1].id)>>
       /\ (requests'[1].op = "get_segmentation" /\ requests[1].pc = "queried")
             => /\ client_segmentation = <<>>
                /\ client_segmentation' = <<CurrentRow(1)>>
                /\ requests'[1].response = client_segmentation'[1]
       /\ (Free(1) /\ requests'[1].op = "get_segmentation" /\ client_segmentation # <<>>)
             => /\ requests'[1].pc = "done"
                /\ requests'[1].response = client_segmentation[1]
                /\ client_segmentation' = client_segmentation]_vars

\* a row that a recalculation has overwritten after a second agreement was
\* created, read back by a finished get
C22_Witness ==
    /\ DOMAIN requests = {1}
    /\ Len(agreements) = 2
    /\ Len(client_segmentation) = 1
    /\ client_segmentation[1].id = 1
    /\ client_segmentation[1].total_mrr = 9998000
    /\ requests[1].op = "get_segmentation" /\ requests[1].pc = "done"
    /\ requests[1].response = client_segmentation[1]

\* no request has been refused by the unique customer_id of the table
NoDuplicateFailure == \A r \in DOMAIN requests : requests[r].pc # "failed"

\* with every request answered, the stored row holds the total_mrr and tier of
\* the stored agreements
StoredRowCurrent ==
    ((\A r \in DOMAIN requests : Free(r)) /\ client_segmentation # <<>>)
        => /\ client_segmentation[1].total_mrr = CurrentRow(1).total_mrr
           /\ client_segmentation[1].tier = CurrentRow(1).tier

\* C27: with create_agreement, update_agreement, get_segmentation and
\* recalculate requests of one customer interleaved, no request fails on a
\* duplicate segmentation row, and once all are answered the stored total_mrr
\* and tier are those of the committed agreements.
C27_ConcurrentRequestsConsistent == NoDuplicateFailure /\ StoredRowCurrent

\* the i-th recommendation is the one of the i-th gap: its category, severity
\* and issue, and the text and the three action items of its signal
RecommendationOf(rec, gap) ==
    /\ rec.category = gap.category
    /\ rec.priority = gap.severity
    /\ rec.issue = gap.issue
    /\ {"recommendation", "action_items"} \subseteq DOMAIN rec
    /\ rec.recommendation = RecommendationText[gap.signal][1]
    /\ rec.action_items = RecommendationText[gap.signal][2]
    /\ Len(rec.action_items) = 3
    /\ gap.signal = "patch_compliance" =>
          rec.recommendation =
            "Implement automated patch management solution and establish monthly patching cadence"

\* C23: generate_recommendations returns one recommendation per gap of
\* identify_gaps, in the gaps' order, with priority the gap's severity, category
\* and issue copied, and the recommendation text and three action items of the
\* gap's signal; none lacks either field.
C23_OneRecommendationPerGap ==
    pc \in {"recommended", "budget", "roi"} =>
        /\ Len(recommendations) = Len(gaps)
        /\ \A i \in DOMAIN gaps : RecommendationOf(recommendations[i], gaps[i])

\* recommendations for a patch gap followed by at least two more gaps
C23_Witness ==
    /\ pc = "recommended"
    /\ Len(gaps) >= 3
    /\ gaps[1].signal = "patch_compliance"
    /\ recommendations[1].priority = "High"
    /\ recommendations[Len(gaps)].priority # recommendations[1].priority

\* --------------------------------------------------- the report deduction
\* the deductions of the health score other than the one of the report score
OtherDeductions ==
    (IF \E i \in DOMAIN agreements : Get(agreements[i], "status", None) = "active"
     THEN 0 ELSE 30)
    + (IF Len(meetings) = 0 THEN 25 ELSE IF Len(meetings) < 2 THEN 15 ELSE 0)
    + (IF Len(reports) = 0 THEN 25 ELSE IF Len(reports) < 2 THEN 10 ELSE 0)

\* the score of the report of the greatest generated_at
LatestReportScore == Get(Latest(reports, "generated_at"), "overall_score", 0)

\* C24: the security-posture deduction of the health score is the one of the
\* report with the greatest generated_at (20 below 50, 10 below 70), in
\* whatever order the reports are listed.
C24_DeductionFromLatestReport ==
    (pc = "segmented" /\ reports # <<>>) =>
        segment.health_score =
            100 - OtherDeductions
                - (IF LatestReportScore < 50000 THEN 20
                   ELSE IF LatestReportScore < 70000 THEN 10 ELSE 0)

\* every report holds the 0-1 Overall that generate_review stores
StoredByGenerateReview ==
    \A i \in DOMAIN reports :
        /\ "overall_score" \in DOMAIN reports[i]
        /\ reports[i].overall_score \in 0..1000

\* C26: an active agreement, two meetings and two reports stored by
\* generate_review, the latest of Overall 1.0, give health_score 100 and
\* health_status excellent.
C26_PerfectOverallNoDeduction ==
    (/\ pc = "segmented"
     /\ \E i \in DOMAIN agreements : Get(agreements[i], "status", None) = "active"
     /\ Len(meetings) >= 2
     /\ Len(reports) >= 2
     /\ StoredByGenerateReview
     /\ LatestReportScore = 1000)
        => /\ segment.health_score = 100
           /\ segment.health_status = "excellent"

\* ----------------------------------------------- the quantities priced
\* the quantity of the service's line item, 0 when the budget has none
PricedQuantity(service) ==
    IF ItemsOf(service) = {} THEN 0
    ELSE budget.services[CHOOSE i \in ItemsOf(service) : TRUE].quantity

\* the number of assets of these types for which `covered` does not hold
CountLacking(types, covered(_)) ==
    Cardinality({i \in DOMAIN assets :
                    Get(assets[i], "type", None) \in types /\ ~covered(assets[i])})

\* C25: the servers priced by the Server Backup line item (0 when absent) are
\* as many as the Server assets whose backup_enabled is not true.
C25_BackupQuantityIsUncoveredServers ==
    pc \in {"budget", "roi"} =>
        PricedQuantity("Server Backup Solution")
            = CountLacking({"Server"}, LAMBDA a : IsTrue(a, "backup_enabled"))

\* C29: when there is an edr gap, the endpoints priced by the EDR line item
\* (0 when absent) are as many as the Workstation, Laptop and Server assets
\* whose antivirusstatus is neither Protected nor Enabled.
C29_EdrQuantityIsUnprotectedEndpoints ==
    (pc \in {"budget", "roi"} /\ SomeGap("edr")) =>
        PricedQuantity("Endpoint Detection & Response")
            = CountLacking({"Workstation", "Laptop", "Server"},
                           LAMBDA a : Get(a, "antivirusstatus", None)
                                          \in {"Protected", "Enabled"})

\* ------------------------------------------------- the SLA flag of a ticket
\* every ticket is of the shape _mock_tickets writes, the flag under 'sla_met'
AdapterTickets ==
    tickets # <<>> /\ \A i \in DOMAIN tickets : "sla_met" \in DOMAIN tickets[i]

\* C30: for tickets as HaloConnector produces them, response_time_sla is
\* 100 * (tickets whose SLA flag is true) / (tickets), to two decimals.
C30_SlaReadsAdapterFlag ==
    (SignalsDone /\ AdapterTickets) =>
        signals.response_time_sla =
            Percentage(Cardinality({i \in DOMAIN tickets : tickets[i].sla_met = TRUE}),
                       Len(tickets))

\* ------------------------------------------- the tiers within the review
\* C28: in generate_review, where total_budget is 12 times the monthly total
\* that is also current_monthly_cost and the gaps are those of identify_gaps,
\* the budget recommendation is the 'all three tiers' branch, a budget of zero
\* included.
C28_ReviewFundsAllTiers ==
    pc = "roi" => tiered_budget.recommendation.branch = "all three tiers"

\* a review with all five gaps and a positive monthly total, the three tiers
\* together costing more than one month
C28_Witness ==
    /\ pc = "roi"
    /\ Len(gaps) = 5
    /\ budget.total_monthly > 0
    /\ QLess(Dollars(budget.total_monthly), tiered_budget.budget_scenarios.all_tiers.cost)
    /\ tiered_budget.recommendation.branch = "all three tiers"

====
